---- MODULE Spec2Model ----
(***************************************************************************)
(* The intercepting proxy of proxyserver.py, its decision store            *)
(* (redis_storage.py) and the control-plane endpoints of proxy_api.py.     *)
(*                                                                         *)
(* A worker sets up the TLS tunnel of a CONNECT (a minted certificate and   *)
(* key, written to and loaded from the certificate cache), reads the       *)
(* request and, by the proxy mode, filters it or holds it for a decision.  *)
(*                                                                         *)
(* One worker thread serves one accepted connection.  Every Redis command  *)
(* is one atomic step, so the multi-command store operations               *)
(* (save_request, save_response, delete_request) are sequences of steps    *)
(* that interleave with the other threads.                                 *)
(***************************************************************************)
EXTENDS Integers, Sequences, FiniteSets, TLC

(***************************************************************************)
(* Bounds of the model.                                                    *)
(***************************************************************************)
\* Number of connections the accept loop hands to worker threads.
MaxConn == 2

\* Number of calls the control plane makes on the decision store.
MaxCalls == 3

\* Number of control-plane calls in the runs with every connection arriving.
MaxCallsTwo == 1

\* Number of control-plane calls in the runs where the control plane decides
\* one connection of two and leaves the other undecided.
MaxCallsPair == 2

\* Number of control-plane calls in the runs over every kind of first line.
MaxCallsInputs == 1

\* Seconds of a record's hour that the model lets pass before a later call.
Tick == 1

\* Connections; request_id = str(uuid.uuid4()) is fresh for every worker, so
\* the id a worker generates is identified with its connection number.
Conns == 1..MaxConn
Ids == Conns

(***************************************************************************)
(* Program constants.                                                      *)
(***************************************************************************)
\* max_wait, the cap of a decision wait in seconds.  The handlers set it to
\* 60 (120 polls); the model keeps the loop and its half-second step and
\* scales the cap, so a wait is 2 * max_wait polls.
max_wait == 1
\* time.sleep(0.5); waited += 0.5 : the wait is counted in half seconds.
HalfSecondsPerSecond == 2
\* self.client.expire(key, 3600)
TTL_SECONDS == 3600
\* A key without expiry (Redis TTL -1).
NoTTL == -1

\* Number of half-second sleeps after which `waited < max_wait` is false.
MaxPolls == max_wait * HalfSecondsPerSecond

\* update_request_status / update_response_status docstring:
\* "(pending, allowed, blocked, modified)".
StatusValues == {"pending", "allowed", "blocked", "modified"}

(***************************************************************************)
(* Redis hashes: a hash is a function from the fields it holds to their    *)
(* values; the key does not exist iff the hash has no field.               *)
(***************************************************************************)
NoHash == [f \in {} |-> ""]

Exists(h) == DOMAIN h # {}

\* HSET key mapping: the given fields are written, the others are kept.
HSet(h, m) == [f \in DOMAIN h \cup DOMAIN m |-> IF f \in DOMAIN m THEN m[f] ELSE h[f]]

\* HGET key field: None (modelled as "") when key or field is missing.
None == ""
HGet(h, f) == IF f \in DOMAIN h THEN h[f] ELSE None

\* LREM list 0 value: every occurrence removed, order of the rest kept.
LRem(l, v) == SelectSeq(l, LAMBDA x : x # v)

\* LPUSH list value
LPush(l, v) == <<v>> \o l

\* json.dumps(headers) and json.loads(text)
JsonDumps(h) == [json |-> h]
JsonLoads(s) == s.json

(***************************************************************************)
(* Python's str operations, on the characters of the string.               *)
(***************************************************************************)
\* c.isspace() on the characters that occur.
IsSpace(c) == c \in {" ", "\t", "\r", "\n"}

\* s[i-1:j] with 1-based inclusive bounds; the empty string when i > j.
Slice(s, i, j) == IF i > j THEN "" ELSE SubSeq(s, i, j)

\* s.startswith(p)
StartsWith(s, p) == Len(s) >= Len(p) /\ Slice(s, 1, Len(p)) = p

\* s.strip()
RECURSIVE LStrip(_)
LStrip(s) == IF s # "" /\ IsSpace(Slice(s, 1, 1)) THEN LStrip(Slice(s, 2, Len(s))) ELSE s
RECURSIVE RStrip(_)
RStrip(s) ==
    IF s # "" /\ IsSpace(Slice(s, Len(s), Len(s))) THEN RStrip(Slice(s, 1, Len(s) - 1)) ELSE s
Strip(s) == RStrip(LStrip(s))

\* s.split(): the maximal runs of characters that are not whitespace.
RECURSIVE SplitFrom(_, _, _)
SplitFrom(s, i, word) ==
    IF i > Len(s) THEN (IF word = "" THEN <<>> ELSE <<word>>)
    ELSE IF IsSpace(Slice(s, i, i))
         THEN (IF word = "" THEN <<>> ELSE <<word>>) \o SplitFrom(s, i + 1, "")
         ELSE SplitFrom(s, i + 1, word \o Slice(s, i, i))
Split(s) == SplitFrom(s, 1, "")

\* s.find(sub) + 1: the position of the first occurrence, 0 when there is none.
Find(s, sub) ==
    LET at == {i \in 1..(Len(s) - Len(sub) + 1) : Slice(s, i, i + Len(sub) - 1) = sub}
    IN IF at = {} THEN 0 ELSE CHOOSE i \in at : \A j \in at : i <= j

\* s.split(sep)[0] and, when sep occurs in s, sep.join(s.split(sep)[1:]).
Before(s, sep) == IF Find(s, sep) = 0 THEN s ELSE Slice(s, 1, Find(s, sep) - 1)
After(s, sep) == Slice(s, Find(s, sep) + Len(sep), Len(s))

(***************************************************************************)
(* request_interceptor.py: the first line of a connection.                 *)
(***************************************************************************)
\* is_connect_request: request_line.strip().startswith("CONNECT").
is_connect_request(request_line) == StartsWith(Strip(request_line), "CONNECT")

\* Mutant of extract_hostname: the line is not tested for its CONNECT prefix.
extract_hostname_any(request_line) ==
    IF Len(Split(request_line)) < 2 THEN None
    ELSE Before(Split(request_line)[2], ":")

\* extract_hostname: None unless the line starts with CONNECT and has a
\* second word; then that word up to its first colon (which can be empty).
extract_hostname(request_line) ==
    IF ~StartsWith(request_line, "CONNECT") THEN None
    ELSE IF Len(Split(request_line)) < 2 THEN None
    ELSE Before(Split(request_line)[2], ":")

\* _handle_http_request: headers.get('Host', ''), and when that is empty and
\* the path holds '://', path.split('://')[1].split('/')[0].
http_hostname(headers, path) ==
    LET host == IF "Host" \in DOMAIN headers THEN headers["Host"] ELSE ""
    IN IF host # "" THEN host
       ELSE IF Find(path, "://") # 0 THEN Before(Before(After(path, "://"), "://"), "/")
       ELSE host

(***************************************************************************)
(* request_interceptor.py: parse_request.                                  *)
(***************************************************************************)
CRLF == "\r\n"

\* s.split(sep): the pieces of s between the occurrences of sep.
RECURSIVE SplitOn(_, _)
SplitOn(s, sep) ==
    IF Find(s, sep) = 0 THEN <<s>> ELSE <<Before(s, sep)>> \o SplitOn(After(s, sep), sep)

\* _parse_request_line: the first three words of the line, with 'UNKNOWN',
\* '/' and 'HTTP/1.1' for the ones that are not there.
parse_request_line(line) ==
    LET parts == Split(line)
    IN [method |-> IF Len(parts) > 0 THEN parts[1] ELSE "UNKNOWN",
        path |-> IF Len(parts) > 1 THEN parts[2] ELSE "/",
        version |-> IF Len(parts) > 2 THEN parts[3] ELSE "HTTP/1.1"]

\* Mutant of SetHeader: a name that is there already keeps its value.
SetHeader_first(headers, key, value) == headers @@ (key :> value)

\* headers[key] = value
SetHeader(headers, key, value) == (key :> value) @@ headers

\* _parse_headers: the loop over the lines stops at an empty line; a line
\* with a colon sets the header named before its first colon, name and value
\* stripped; a line without one is skipped.
RECURSIVE parse_headers_from(_, _)
parse_headers_from(header_lines, headers) ==
    IF header_lines = <<>> THEN headers
    ELSE LET line == Head(header_lines)
         IN IF line = "" THEN headers
            ELSE IF Find(line, ":") # 0
                 THEN parse_headers_from(Tail(header_lines),
                          SetHeader(headers, Strip(Before(line, ":")), Strip(After(line, ":"))))
                 ELSE parse_headers_from(Tail(header_lines), headers)

parse_headers(header_lines) == parse_headers_from(header_lines, [f \in {} |-> ""])

\* parse_request: raw_data.split('\r\n\r\n', 1) gives the header part and
\* the body; the first line of the header part is the request line, the
\* other lines are the headers.  (On a str nothing raises, and split gives
\* at least one line: _empty_request is not reached.)
parse_request(raw_data) ==
    LET header_part == Before(raw_data, CRLF \o CRLF)
        body == IF Find(raw_data, CRLF \o CRLF) # 0 THEN After(raw_data, CRLF \o CRLF) ELSE ""
        lines == SplitOn(header_part, CRLF)
        first == parse_request_line(Head(lines))
    IN [method |-> first.method, path |-> first.path, version |-> first.version,
        headers |-> parse_headers(Tail(lines)), body |-> body]

(***************************************************************************)
(* Data the clients and the origin servers supply.                         *)
(***************************************************************************)
\* Raw requests handed to parse_request: a request line, header lines and
\* what follows them, each with the value the parts stand for.
RequestLines ==
    { [text |-> "GET /hello HTTP/1.1", method |-> "GET", path |-> "/hello", version |-> "HTTP/1.1"],
      [text |-> "POST /submit", method |-> "POST", path |-> "/submit", version |-> "HTTP/1.1"],
      [text |-> "GET", method |-> "GET", path |-> "/", version |-> "HTTP/1.1"],
      [text |-> "", method |-> "UNKNOWN", path |-> "/", version |-> "HTTP/1.1"],
      [text |-> "  GET   /a  HTTP/1.0  extra", method |-> "GET", path |-> "/a",
       version |-> "HTTP/1.0"] }

HeaderBlocks ==
    { [text |-> "", headers |-> [f \in {} |-> ""]],
      [text |-> "\r\nHost: example.test", headers |-> ("Host" :> "example.test")],
      [text |-> "\r\nHost: a.test\r\nHost: b.test", headers |-> ("Host" :> "b.test")],
      [text |-> "\r\nno colon here\r\nX-Key :  spaced  ", headers |-> ("X-Key" :> "spaced")],
      [text |-> "\r\nUrl: http://x.test:80/", headers |-> ("Url" :> "http://x.test:80/")] }

Endings ==
    { [text |-> "", body |-> ""],
      [text |-> "\r\n", body |-> ""],
      [text |-> "\r\n\r\n", body |-> ""],
      [text |-> "\r\n\r\nhello", body |-> "hello"],
      [text |-> "\r\n\r\na=1\r\n\r\nb=2", body |-> "a=1\r\n\r\nb=2"] }

RawCases ==
    { [raw |-> l.text \o h.text \o e.text, method |-> l.method, path |-> l.path,
       version |-> l.version, headers |-> h.headers, body |-> e.body] :
      l \in RequestLines, h \in HeaderBlocks, e \in Endings }

RawInputs == { c.raw : c \in RawCases }

\* Handlers a connection is dispatched to (_handle_client).
Handlers == {"tunnel", "plain"}

\* Requests a client sends, as parse_request hands them to the handler:
\* hostname (CONNECT target or Host header), method, path, headers, body.
ClientRequests ==
    { [hostname |-> "example.test", method |-> "GET", path |-> "/hello",
       headers |-> ("Host" :> "example.test" @@ "Accept-Encoding" :> "br"),
       body |-> ""] }

\* What a client sends on a connection: the first line, and the request
\* (on a CONNECT line, the request it sends inside the tunnel).
Input(line, r) == [line |-> line, request |-> r]
\* recv returns b'': the client has sent nothing.
NoData == [hostname |-> "", method |-> "", path |-> "",
           headers |-> [f \in {} |-> ""], body |-> ""]
NoInput == Input("", NoData)

\* The first line of a CONNECT for a hostname, and of a plain request.
ConnectLine(hostname) == "CONNECT " \o hostname \o ":443 HTTP/1.1"
RequestLine(r) == r.method \o " " \o r.path \o " HTTP/1.1"

\* The well-formed traffic: each request sent through a tunnel to its host,
\* and sent in the clear.
RequestInputs ==
    { Input(ConnectLine(r.hostname), r) : r \in ClientRequests } \cup
    { Input(RequestLine(r), r) : r \in ClientRequests }

\* The well-formed traffic, a client that opens a tunnel and sends nothing
\* through it, and a client that connects and sends nothing.
ClientInputs ==
    RequestInputs \cup
    { Input(ConnectLine(r.hostname), NoData) : r \in ClientRequests } \cup
    { NoInput }

\* First lines that begin like a CONNECT and are not one, or name no host.
OddLines ==
    { "CONNECT", "CONNECT :443 HTTP/1.1", " CONNECT example.test:443 HTTP/1.1",
      "CONNECTION example.test:443 HTTP/1.1" }

\* Plain requests without a Host header (relative and absolute-form URI),
\* and one whose method is a lower-case connect.
OddRequests ==
    { [hostname |-> "", method |-> "GET", path |-> "/hello",
       headers |-> ("Accept-Encoding" :> "br"), body |-> ""],
      [hostname |-> "", method |-> "GET", path |-> "http://example.test/hello",
       headers |-> ("Accept-Encoding" :> "br"), body |-> ""],
      [hostname |-> "", method |-> "connect", path |-> "example.test:443",
       headers |-> ("Accept-Encoding" :> "br"), body |-> ""] }

\* The well-formed traffic and the odd one.
AllInputs ==
    ClientInputs \cup
    { Input(l, r) : l \in OddLines, r \in ClientRequests } \cup
    { Input(RequestLine(r), r) : r \in OddRequests }

\* What _handle_client and the handler it picks make of each input: whether
\* is_connect_request takes the first line for a CONNECT, and the hostname,
\* of the line for the CONNECT handler and of the request for the plain one.
Routes ==
    [i \in AllInputs |->
        LET connect == is_connect_request(i.line)
        IN [connect |-> connect,
            hostname |-> IF connect THEN extract_hostname(i.line)
                         ELSE http_hostname(i.request.headers, i.request.path)]]

\* The hostnames of the CONNECT lines, which name the files of the
\* certificate cache.
Hostnames == {extract_hostname(i.line) : i \in AllInputs}

\* The members the policy sets proxy_config:blocked_domains and
\* proxy_config:blocked_keywords are made of.
Domains == {"example.test", "ads.test"}
Keywords == {"h", "zz"}

\* What requests.request returns: status_code, headers, text (decoded body)
\* and content (raw body).
UpstreamResponses ==
    { [status_code |-> 200,
       headers |-> ("Server" :> "origin" @@ "Content-Length" :> "2"
                    @@ "Content-Encoding" :> "gzip"),
       text |-> "hi", content |-> "hi"] }

\* Optional arguments: Nothing is Python's None, Some(v) a given value.
Nothing == {}
Some(v) == {v}
Given(o) == o # Nothing
Value(o) == CHOOSE v \in o : TRUE

\* Edits the control plane passes to update_request_data /
\* update_response_data: headers (a dict) and body, each optional.
EditedHeaders == { Nothing, Some([Via |-> "edited"]), Some("accept-encoding" :> "br") }
EditedBodies == { Nothing, Some("replaced") }

\* str(n) for n >= 0, as Redis stores a status code and as the worker
\* writes a length; int(text) is its inverse on the status codes.
Digit(d) == <<"0", "1", "2", "3", "4", "5", "6", "7", "8", "9">>[d + 1]
RECURSIVE IntToStr(_)
IntToStr(n) == IF n < 10 THEN Digit(n) ELSE IntToStr(n \div 10) \o Digit(n % 10)
StatusCodes == 100..599
StrToInt(t) == CHOOSE n \in StatusCodes : IntToStr(n) = t

\* key.lower() on the header names that occur.
Lower(k) ==
    CASE k = "Content-Length" -> "content-length"
      [] k = "Transfer-Encoding" -> "transfer-encoding"
      [] k = "Content-Encoding" -> "content-encoding"
      [] k = "Accept-Encoding" -> "accept-encoding"
      [] k = "Host" -> "host"
      [] k = "Server" -> "server"
      [] k = "Via" -> "via"
      [] OTHER -> k

NoResponse == [status_code |-> 0, headers |-> NoHash, text |-> "", content |-> ""]

(***************************************************************************)
(* State.                                                                  *)
(***************************************************************************)
VARIABLES
    req,          \* request:<id> hashes
    reqTTL,       \* expiry of request:<id> in seconds, NoTTL when none
    resp,         \* response:<id> hashes
    respTTL,      \* expiry of response:<id>
    pending,      \* the pending_requests list, head first
    pc,           \* where each worker is in its handler
    handler,      \* the handler the connection was dispatched to
    parsed,       \* method, path, headers, body (and hostname) of the worker
    waited,       \* `waited`, in half seconds
    status,       \* `status`
    response,     \* `response`, the upstream response
    resp_waited,  \* `resp_waited`, in half seconds
    resp_status,  \* `resp_status`
    sent,         \* what the worker wrote to its client, in order
    upstream,     \* the upstream requests the worker issued, in order
    delpc,        \* ids whose delete_request has deleted the hash, LREM to come
    posted,       \* the endpoint calls made while the id's worker polled
    calls,        \* per id, the control-plane calls still to be made on it
    published,    \* the ids that were pushed onto pending_requests
    proxy_mode,       \* proxy_config:mode, None when it was never set
    blocked_domains,  \* proxy_config:blocked_domains
    blocked_keywords, \* proxy_config:blocked_keywords
    cert_file,    \* certs/<hostname>.crt: the mint whose certificate it holds
    key_file,     \* certs/<hostname>.key: the mint whose private key it holds
    context,      \* what load_cert_chain loaded into the worker's SSLContext
    raw_sent,     \* what the worker wrote to the raw socket before TLS
    client,       \* what the client of each connection sends
    returned,     \* the last call on the policy configuration and its result
    mode_set,     \* the mode of the last successful set_proxy_mode, None if none
    server,       \* where the main thread is: in its accept loop, or in its shutdown
    rm_files,     \* the files rm was handed by the shell and has yet to unlink
    orphaned,     \* the workers whose open cache file was unlinked, per extension
    raw,          \* the raw_data a caller hands to parse_request
    request,      \* what parse_request returned for it
    view,         \* the call of GET /api/requests: its position, its locals, its answer
    clear,        \* the call of clear_all_requests: its position and the ids it read
    redis         \* the Redis server: whether it can be reached ("up" or "down")
                  \* and how many times it has stopped answering

store == <<req, reqTTL, resp, respTTL, pending>>
worker == <<pc, handler, parsed, waited, status, response, resp_waited, resp_status,
            sent, upstream>>
config == <<proxy_mode, blocked_domains, blocked_keywords>>
cache == <<cert_file, key_file>>
tunnel == <<context, raw_sent>>
api == <<returned, mode_set>>
aux == <<server, rm_files, orphaned, raw, request, view, clear, redis>>
env == <<config, cache, tunnel, client, api, aux>>
vars == <<req, reqTTL, resp, respTTL, pending, pc, handler, parsed, waited, status,
          response, resp_waited, resp_status, sent, upstream, delpc, posted, calls,
          published, proxy_mode, blocked_domains, blocked_keywords, cert_file, key_file,
          context, raw_sent, client, returned, mode_set, server, rm_files, orphaned,
          raw, request, view, clear, redis>>

NoRequest == [hostname |-> "", method |-> "", path |-> "", headers |-> NoHash, body |-> ""]

\* A mint of generate_certificate: a fresh key pair and the certificate on
\* it.  Every worker of the CONNECT handler mints once, so the mint is named
\* by its worker; NoMint is a file that is not there, or nothing loaded.
NoMint == 0
\* A file that open(path, 'wb') has created or truncated and that nothing
\* has been written to: it is there and holds no bytes.
Empty == -1
Mint(w) == w

\* The policy configuration the store holds when the proxy starts: nothing
\* (the mode then reads as 'intercept'), or mode 'filter' with its two sets.
Configs ==
    { [mode |-> None, domains |-> {}, keywords |-> {}] } \cup
    { [mode |-> "filter", domains |-> d, keywords |-> k] :
        d \in SUBSET Domains, k \in SUBSET Keywords }

\* A call on the policy configuration, with its argument and what it returned.
Returned(call, arg, result) == [call |-> call, arg |-> arg, result |-> result]
NoCall == Returned("", "", "")

\* GET /api/requests has not been called: the ids it read, the summaries it
\* has collected and its answer.
NoAnswer == [code |-> 0, body |-> <<>>]
NoView == [pc |-> "idle", ids |-> <<>>, list |-> <<>>, answer |-> NoAnswer]

\* clear_all_requests has not been called.
NoClear == [pc |-> "idle", ids |-> <<>>]

\* No call of parse_request has returned.
NoParse == [f \in {} |-> ""]

\* n control-plane calls on id i and none on the other ids.
Budget(i, n) == [j \in Ids |-> IF j = i THEN n ELSE 0]

\* The state after construction: an empty decision store but for the policy
\* configuration, an empty certificate cache, `arriving` connections yet to
\* be accepted (the others never arrive), each with one of `inputs` as what
\* its client sends, one of `budgets` as the control-plane calls to come, the
\* main thread in its accept loop, and one of `raws` as the argument of the
\* call of parse_request to come.
InitWith(arriving, budgets, inputs, raws) ==
    /\ req = [i \in Ids |-> NoHash]
    /\ reqTTL = [i \in Ids |-> NoTTL]
    /\ resp = [i \in Ids |-> NoHash]
    /\ respTTL = [i \in Ids |-> NoTTL]
    /\ pending = <<>>
    /\ pc = [w \in Conns |-> IF w \in arriving THEN "accept" ELSE "absent"]
    /\ handler = [w \in Conns |-> "none"]
    /\ parsed = [w \in Conns |-> NoRequest]
    /\ waited = [w \in Conns |-> 0]
    /\ status = [w \in Conns |-> "pending"]
    /\ response = [w \in Conns |-> NoResponse]
    /\ resp_waited = [w \in Conns |-> 0]
    /\ resp_status = [w \in Conns |-> "pending"]
    /\ sent = [w \in Conns |-> <<>>]
    /\ upstream = [w \in Conns |-> <<>>]
    /\ delpc = {}
    /\ posted = [i \in Ids |-> {}]
    /\ calls \in budgets
    /\ published = {}
    /\ returned = NoCall
    /\ server = "listening"
    /\ rm_files = <<>>
    /\ orphaned = {}
    /\ raw \in raws
    /\ request = NoParse
    /\ view = NoView
    /\ clear = NoClear
    /\ redis = [state |-> "up", outages |-> 0]
    /\ \E c \in Configs :
        /\ proxy_mode = c.mode
        /\ mode_set = c.mode
        /\ blocked_domains = c.domains
        /\ blocked_keywords = c.keywords
    /\ cert_file = [h \in Hostnames |-> NoMint]
    /\ key_file = [h \in Hostnames |-> NoMint]
    /\ context = [w \in Conns |-> [cert |-> NoMint, key |-> NoMint]]
    /\ raw_sent = [w \in Conns |-> <<>>]
    /\ \E sends \in [arriving -> inputs] :
        client = [w \in Conns |-> IF w \in arriving THEN sends[w] ELSE NoInput]

\* One connection and its id, with the control plane free to make MaxCalls
\* calls.
Init == InitWith({1}, {Budget(1, MaxCalls)}, ClientInputs, {""})

(***************************************************************************)
(* redis_storage.py: the read operations, as functions of the hash.        *)
(***************************************************************************)
\* Mutant of get_status: the value of hget is returned as it is, None included.
get_status_raw(h) == HGet(h, "status")

\* get_request_status / get_response_status: hget(key, "status"), and
\* 'unknown' when that is None or empty.
get_status(h) == IF HGet(h, "status") # None THEN HGet(h, "status") ELSE "unknown"

\* Every command raises while the Redis server cannot be reached.
Raises == redis.state = "down"

\* What a status read can return: the value above, or 'error' when the
\* Redis call raises: always when the store cannot be reached, and for one
\* call that fails while it can.
StatusReads(h) == IF Raises THEN {"error"} ELSE { get_status(h), "error" }

\* get_request: None (here NoHash) when hgetall raises or is empty, and also
\* when the hash has no 'headers' field (the KeyError is caught by the outer
\* except);
\* otherwise the hash with its headers parsed back from JSON.
get_request(h) ==
    IF Raises THEN NoHash
    ELSE IF ~Exists(h) THEN NoHash
    ELSE IF "headers" \notin DOMAIN h THEN NoHash
    ELSE HSet(h, [headers |-> JsonLoads(h.headers)])

\* get_response: None when hgetall raises or is empty; a missing 'headers'
\* field is caught by the inner bare except and read as {}.
get_response(h) ==
    IF Raises THEN NoHash
    ELSE IF ~Exists(h) THEN NoHash
    ELSE HSet(h, [headers |-> IF "headers" \in DOMAIN h THEN JsonLoads(h.headers) ELSE NoHash])

\* Mutant of updates: a body that is not given is written as the empty string.
updates_with_body(headers, body) ==
    HSet(IF Given(headers) THEN [headers |-> JsonDumps(Value(headers))] ELSE NoHash,
         [body |-> IF Given(body) THEN Value(body) ELSE ""])

\* The mapping update_request_data / update_response_data writes.
updates(headers, body) ==
    HSet(IF Given(headers) THEN [headers |-> JsonDumps(Value(headers))] ELSE NoHash,
         IF Given(body) THEN [body |-> Value(body)] ELSE NoHash)

\* The request_data mapping of save_request.
request_data(id, r) ==
    [id |-> id, hostname |-> r.hostname, method |-> r.method, path |-> r.path,
     headers |-> JsonDumps(r.headers), body |-> r.body, timestamp |-> "timestamp"]

\* Mutant of response_data: save_response stores the response as 'allowed'.
response_data_allowed(r) ==
    [status_code |-> IntToStr(r.status_code), headers |-> JsonDumps(r.headers),
     body |-> r.text, status |-> "allowed"]

\* The response_data mapping of save_response; Redis stores the status code
\* as a string.
response_data(r) ==
    [status_code |-> IntToStr(r.status_code), headers |-> JsonDumps(r.headers),
     body |-> r.text, status |-> "pending"]

\* EXPIRE key seconds: sets the expiry of an existing key only.
Expire(h, ttl, seconds) == IF Exists(h) THEN seconds ELSE ttl

(***************************************************************************)
(* Responses the worker writes to its client.                              *)
(***************************************************************************)
Canned(code, body) == [code |-> code, headers |-> NoHash, body |-> body]

Blocked403 == Canned(403, "Blocked by proxy")
Timeout408 == Canned(408, "")
NotImplemented501 == Canned(501, "Modified requests not yet implemented")
\* Mutant of BadGateway502: the status line alone, without a body.
BadGateway502_bare == Canned(502, "")
BadGateway502 == Canned(502, "Proxy Error")
GatewayTimeout504 == Canned(504, "Response decision timeout")

\* str(len(resp_body))
StrLen(b) == IntToStr(Len(b))

\* The header lines of the intercept path: Transfer-Encoding and
\* Content-Encoding are skipped, a Content-Length header is rewritten.
SkippedHeaders == {"transfer-encoding", "content-encoding"}
InterceptHeaders(h, body) ==
    [k \in {n \in DOMAIN h : Lower(n) \notin SkippedHeaders} |->
        IF Lower(k) = "content-length" THEN StrLen(body) ELSE h[k]]

\* Mutant of AllowedResponse: the upstream response is written as received,
\* whatever the response record holds.
AllowedResponse_upstream(stored, r) ==
    [code |-> r.status_code, headers |-> InterceptHeaders(r.headers, r.content),
     body |-> r.content]

\* The response of the 'allowed' branch: the reloaded record when there is
\* one, the upstream response otherwise.
AllowedResponse(stored, r) ==
    LET code == IF Exists(stored) /\ "status_code" \in DOMAIN stored
                THEN StrToInt(stored.status_code) ELSE r.status_code
        hdrs == IF Exists(stored) /\ "headers" \in DOMAIN stored
                THEN stored.headers ELSE r.headers
        body == IF Exists(stored) /\ "body" \in DOMAIN stored
                THEN stored.body ELSE r.content
    IN [code |-> code, headers |-> InterceptHeaders(hdrs, body), body |-> body]

(***************************************************************************)
(* The worker: _handle_client, then _read_and_store_request (tunnel) or    *)
(* _handle_http_request (plain).  The intercept path of the two handlers   *)
(* differs in the upstream scheme only.                                    *)
(***************************************************************************)
\* Mutant of request_id: every worker uses the same id.
request_id_shared(w) == 1

\* The id the worker generates.
request_id(w) == w

\* b"HTTP/1.1 400 Bad Request\r\n\r\n"
BadRequest400 == [code |-> 400, headers |-> NoHash, body |-> ""]

\* start: server.accept() of the main thread returns the connection and
\* the thread of the connection is started.
Accept(w) ==
    /\ pc[w] = "accept"
    /\ server = "listening"
    /\ pc' = [pc EXCEPT ![w] = "recv"]
    /\ UNCHANGED <<env, published, store, handler, parsed, waited, status, response,
                   resp_waited, resp_status, sent, upstream, delpc, posted, calls>>

\* _handle_client: recv(1024), and with no data the socket is closed;
\* otherwise the dispatch on the first line: a line is_connect_request takes
\* for a CONNECT goes to _handle_connect_request, anything else to
\* _handle_http_request.  The CONNECT handler extracts the hostname of the
\* line and answers 400 and returns when there is none; otherwise it sets up
\* the tunnel, and has the hostname only.  The plain handler parses the data
\* it was handed and takes the hostname from the Host header or the request
\* URI.
handle_client(w) ==
    /\ pc[w] = "recv"
    /\ IF client[w] = NoInput
       THEN /\ pc' = [pc EXCEPT ![w] = "close"]
            /\ UNCHANGED <<handler, parsed, raw_sent>>
       ELSE LET r == client[w].request
                connect == Routes[client[w]].connect
                hostname == Routes[client[w]].hostname
            IN /\ handler' = [handler EXCEPT ![w] = IF connect THEN "tunnel" ELSE "plain"]
               /\ parsed' = [parsed EXCEPT ![w] =
                       IF connect THEN [NoRequest EXCEPT !.hostname = hostname]
                       ELSE [r EXCEPT !.hostname = hostname]]
               /\ IF connect /\ hostname = None
                  THEN /\ raw_sent' = [raw_sent EXCEPT ![w] = Append(@, BadRequest400)]
                       /\ pc' = [pc EXCEPT ![w] = "close"]
                  ELSE /\ pc' = [pc EXCEPT ![w] = IF connect THEN "open_cert" ELSE "mode"]
                       /\ UNCHANGED raw_sent
    /\ UNCHANGED <<config, cache, context, client, api, aux, published, store, waited, status, response,
                   resp_waited, resp_status, sent, upstream, delpc, posted, calls>>

\* _handle_connect_request: generate_certificate(hostname) mints a fresh
\* pair, and open(cert_path, "wb") creates certs/<hostname>.crt or empties
\* it.  The directory certs is not created by the proxy: open raises without
\* it.
open_cert(w) ==
    /\ pc[w] = "open_cert"
    /\ \/ /\ cert_file' = [cert_file EXCEPT ![parsed[w].hostname] = Empty]
          /\ pc' = [pc EXCEPT ![w] = "write_cert"]
       \/ \* generate_certificate or open raises: the handler's except prints
          /\ pc' = [pc EXCEPT ![w] = "close"]
          /\ UNCHANGED cert_file
    /\ UNCHANGED <<store, handler, parsed, waited, status, response, resp_waited,
                   resp_status, sent, upstream, delpc, posted, calls, published,
                   config, client, api, aux, key_file, tunnel>>

\* f.write(...) and the close of the with block: the file holds the
\* certificate of the worker's mint (bytes a longer certificate of another
\* worker left behind it come after the end of the PEM block and are not
\* read).  When rm has unlinked the file since it was opened, the bytes go
\* to the unlinked file and the directory is as it was.  When the write
\* raises, the file is left as it is.
write_cert(w) ==
    /\ pc[w] = "write_cert"
    /\ \/ /\ cert_file' = IF <<w, "crt">> \in orphaned THEN cert_file
                          ELSE [cert_file EXCEPT ![parsed[w].hostname] = Mint(w)]
          /\ pc' = [pc EXCEPT ![w] = "open_key"]
       \/ /\ pc' = [pc EXCEPT ![w] = "close"]
          /\ UNCHANGED cert_file
    /\ UNCHANGED <<store, handler, parsed, waited, status, response, resp_waited,
                   resp_status, sent, upstream, delpc, posted, calls, published,
                   config, client, api, aux, key_file, tunnel>>

\* open(key_path, "wb") creates certs/<hostname>.key or empties it.
open_key(w) ==
    /\ pc[w] = "open_key"
    /\ \/ /\ key_file' = [key_file EXCEPT ![parsed[w].hostname] = Empty]
          /\ pc' = [pc EXCEPT ![w] = "write_key"]
       \/ \* open raises: the handler's except prints, nothing is sent
          /\ pc' = [pc EXCEPT ![w] = "close"]
          /\ UNCHANGED key_file
    /\ UNCHANGED <<store, handler, parsed, waited, status, response, resp_waited,
                   resp_status, sent, upstream, delpc, posted, calls, published,
                   config, client, api, aux, cert_file, tunnel>>

\* f.write(...) and the close of the with block, for the private key.
write_key(w) ==
    /\ pc[w] = "write_key"
    /\ \/ /\ key_file' = IF <<w, "key">> \in orphaned THEN key_file
                         ELSE [key_file EXCEPT ![parsed[w].hostname] = Mint(w)]
          /\ pc' = [pc EXCEPT ![w] = "established"]
       \/ /\ pc' = [pc EXCEPT ![w] = "close"]
          /\ UNCHANGED key_file
    /\ UNCHANGED <<store, handler, parsed, waited, status, response, resp_waited,
                   resp_status, sent, upstream, delpc, posted, calls, published,
                   config, client, api, aux, cert_file, tunnel>>

\* b"HTTP/1.1 200 Connection Established\r\n\r\n"
Established200 == [code |-> 200, headers |-> NoHash, body |-> ""]

\* The client is told '200 Connection Established'.
send_established(w) ==
    /\ pc[w] = "established"
    /\ raw_sent' = [raw_sent EXCEPT ![w] = Append(@, Established200)]
    /\ pc' = [pc EXCEPT ![w] = "load_cert"]
    /\ UNCHANGED <<store, handler, parsed, waited, status, response, resp_waited,
                   resp_status, sent, upstream, delpc, posted, calls, published,
                   config, client, api, aux, cache, context>>

\* A file load_cert_chain can read a PEM block from.
Readable(f) == f \notin {NoMint, Empty}

\* context.load_cert_chain(cert_path, key_path) reads the certificate file
\* and raises when it is not there or holds no certificate; then it reads
\* the key file, and raises when the key is not the certificate's.
load_cert(w) ==
    /\ pc[w] = "load_cert"
    /\ context' = [context EXCEPT ![w].cert = cert_file[parsed[w].hostname]]
    /\ pc' = [pc EXCEPT ![w] =
            IF Readable(cert_file[parsed[w].hostname]) THEN "load_key" ELSE "close"]
    /\ UNCHANGED <<store, handler, parsed, waited, status, response, resp_waited,
                   resp_status, sent, upstream, delpc, posted, calls, published,
                   config, client, api, aux, cache, raw_sent>>

\* The key of a mint fits the certificate of the same mint only.
MatchingPair(c, k) == Readable(c) /\ c = k

\* With a matching pair the socket is wrapped and the request is read from
\* the TLS session; the exception of a pair that does not match is caught by
\* the handler's except, and the finally closes the socket.
load_key(w) ==
    /\ pc[w] = "load_key"
    /\ context' = [context EXCEPT ![w].key = key_file[parsed[w].hostname]]
    /\ pc' = [pc EXCEPT ![w] =
            IF MatchingPair(context[w].cert, key_file[parsed[w].hostname])
            THEN "read" ELSE "close"]
    /\ UNCHANGED <<store, handler, parsed, waited, status, response, resp_waited,
                   resp_status, sent, upstream, delpc, posted, calls, published,
                   config, client, api, aux, cache, raw_sent>>

\* _read_and_store_request: ssl_socket.recv(4096), and with no data the
\* handler returns; otherwise the request is parsed and method, path,
\* headers and body are bound.
read_request(w) ==
    /\ pc[w] = "read"
    /\ IF client[w].request = NoData
       THEN /\ pc' = [pc EXCEPT ![w] = "close"]
            /\ UNCHANGED parsed
       ELSE /\ parsed' = [parsed EXCEPT ![w] =
                    [client[w].request EXCEPT !.hostname = parsed[w].hostname]]
            /\ pc' = [pc EXCEPT ![w] = "mode"]
    /\ UNCHANGED <<store, handler, waited, status, response, resp_waited,
                   resp_status, sent, upstream, delpc, posted, calls, published, env>>

\* get_proxy_mode: the stored mode, 'intercept' when none is stored.
get_proxy_mode(m) == IF m # None THEN m ELSE "intercept"

\* get_proxy_mode(): its except branch returns 'intercept' when the GET
\* raises, whatever is stored.
read_proxy_mode == IF Raises THEN "intercept" ELSE get_proxy_mode(proxy_mode)

\* get_blocked_domains() and get_blocked_keywords(): the members of the
\* set, and [] from the except branch when SMEMBERS raises.
get_blocked_domains == IF Raises THEN {} ELSE blocked_domains
get_blocked_keywords == IF Raises THEN {} ELSE blocked_keywords

\* "Filter Mode Check": the handler reads the mode once, after it has parsed
\* the request.
filter_mode_check(w) ==
    /\ pc[w] = "mode"
    /\ pc' = [pc EXCEPT ![w] =
            IF read_proxy_mode = "filter" THEN "blocked_domains" ELSE "save_hset"]
    /\ UNCHANGED <<store, handler, parsed, waited, status, response, resp_waited,
                   resp_status, sent, upstream, delpc, posted, calls, published, env>>

\* The canned 403 pages of filter mode; Content-Length is len(html_content).
DeniedPage(html) ==
    [code |-> 403,
     headers |-> ("Content-Type" :> "text/html" @@ "Content-Length" :> StrLen(html)),
     body |-> html]

DomainPage(hostname) ==
    DeniedPage("<html><body><h1>Access Denied</h1><p>The domain <b>" \o hostname
               \o "</b> is blocked by the proxy.</p></body></html>")

KeywordPage(keyword) ==
    DeniedPage("<html><body><h1>Access Denied</h1>"
               \o "<p>The response contained a blocked keyword: <b>" \o keyword
               \o "</b></p></body></html>")

\* Mutant of check_blocked_domains: the blocked-domains test is skipped.
check_blocked_domains_skipped(w) ==
    /\ pc[w] = "blocked_domains"
    /\ pc' = [pc EXCEPT ![w] = "filter_forward"]
    /\ UNCHANGED sent
    /\ UNCHANGED <<store, handler, parsed, waited, status, response, resp_waited,
                   resp_status, upstream, delpc, posted, calls, published, env>>

\* "Check Blocked Domains": hostname in get_blocked_domains().
check_blocked_domains(w) ==
    /\ pc[w] = "blocked_domains"
    /\ IF parsed[w].hostname \in get_blocked_domains
       THEN /\ sent' = [sent EXCEPT ![w] = Append(@, DomainPage(parsed[w].hostname))]
            /\ pc' = [pc EXCEPT ![w] = "close"]
       ELSE /\ pc' = [pc EXCEPT ![w] = "filter_forward"]
            /\ UNCHANGED sent
    /\ UNCHANGED <<store, handler, parsed, waited, status, response, resp_waited,
                   resp_status, upstream, delpc, posted, calls, published, env>>

\* `keyword in resp_content`: the keyword occurs in the text.
Contains(text, keyword) ==
    \/ keyword = ""
    \/ \E i \in 1..Len(text) : \E j \in i..Len(text) : SubSeq(text, i, j) = keyword

\* The header lines of a response forwarded in filter mode: the upstream
\* headers but Transfer-Encoding, Content-Encoding and Content-Length, then
\* Content-Length: len(response.content).
FilterSkippedHeaders == {"transfer-encoding", "content-encoding", "content-length"}
FilterHeaders(h, body) ==
    [k \in {n \in DOMAIN h : Lower(n) \notin FilterSkippedHeaders} |-> h[k]]
        @@ ("Content-Length" :> StrLen(body))

FilterResponse(r) ==
    [code |-> r.status_code, headers |-> FilterHeaders(r.headers, r.content),
     body |-> r.content]

\* save_request has raised: its except branch returns False, the commands
\* that were left are skipped, and the handler, which does not look at the
\* result, enters its wait with waited = 0, status = 'pending'.
save_request_raises(w) ==
    /\ waited' = [waited EXCEPT ![w] = 0]
    /\ status' = [status EXCEPT ![w] = "pending"]
    /\ pc' = [pc EXCEPT ![w] = "poll"]
    /\ UNCHANGED <<env, published, store, handler, parsed, response, resp_waited, resp_status,
                   sent, upstream, delpc, posted, calls>>

\* save_request, first command: hset(request:<id>, mapping=request_data).
save_request_hset(w) ==
    /\ pc[w] = "save_hset"
    /\ IF Raises THEN save_request_raises(w)
       ELSE
        /\ req' = [req EXCEPT ![request_id(w)] = HSet(@, request_data(request_id(w), parsed[w]))]
        /\ pc' = [pc EXCEPT ![w] = "save_lpush"]
        /\ UNCHANGED <<env, published, reqTTL, resp, respTTL, pending, handler, parsed, waited,
                       status, response, resp_waited, resp_status, sent, upstream, delpc, posted,
                       calls>>

\* save_request, second command: lpush(pending_requests, id).
save_request_lpush(w) ==
    /\ pc[w] = "save_lpush"
    /\ IF Raises THEN save_request_raises(w)
       ELSE
        /\ pending' = LPush(pending, request_id(w))
        /\ published' = published \cup {request_id(w)}
        /\ pc' = [pc EXCEPT ![w] = "save_expire"]
        /\ UNCHANGED <<env, req, reqTTL, resp, respTTL, handler, parsed, waited, status,
                       response, resp_waited, resp_status, sent, upstream, delpc, posted, calls>>

\* Mutant of save_request_expire: no expiry is set.
save_request_expire_skipped(w) ==
    /\ pc[w] = "save_expire"
    /\ pc' = [pc EXCEPT ![w] = "save_status"]
    /\ UNCHANGED <<env, published, store, handler, parsed, waited, status,
                   response, resp_waited, resp_status, sent, upstream, delpc, posted, calls>>

\* save_request, third command: expire(request:<id>, 3600).
save_request_expire(w) ==
    /\ pc[w] = "save_expire"
    /\ IF Raises THEN save_request_raises(w)
       ELSE
        /\ reqTTL' = [reqTTL EXCEPT ![request_id(w)] = Expire(req[request_id(w)], @, TTL_SECONDS)]
        /\ pc' = [pc EXCEPT ![w] = "save_status"]
        /\ UNCHANGED <<env, published, req, resp, respTTL, pending, handler, parsed, waited,
                       status, response, resp_waited, resp_status, sent, upstream, delpc, posted,
                       calls>>

\* save_request, fourth command: hset(request:<id>, "status", "pending").
\* The worker then enters its wait with waited = 0, status = 'pending'.
save_request_status(w) ==
    /\ pc[w] = "save_status"
    /\ IF Raises THEN save_request_raises(w)
       ELSE
        /\ req' = [req EXCEPT ![request_id(w)] = HSet(@, [status |-> "pending"])]
        /\ waited' = [waited EXCEPT ![w] = 0]
        /\ status' = [status EXCEPT ![w] = "pending"]
        /\ pc' = [pc EXCEPT ![w] = "poll"]
        /\ UNCHANGED <<env, published, reqTTL, resp, respTTL, pending, handler, parsed,
                       response, resp_waited, resp_status, sent, upstream, delpc, posted, calls>>

\* Mutant of poll_request: the loop test is `waited <= max_wait`.
poll_request_one_more(w) ==
    /\ pc[w] = "poll"
    /\ waited[w] <= MaxPolls
    /\ \E s \in StatusReads(req[request_id(w)]) :
        /\ status' = [status EXCEPT ![w] = s]
        /\ IF s # "pending"
           THEN /\ pc' = [pc EXCEPT ![w] = "decide"]
                /\ UNCHANGED waited
           ELSE /\ waited' = [waited EXCEPT ![w] = @ + 1]
                /\ pc' = [pc EXCEPT ![w] = IF waited[w] + 1 <= MaxPolls THEN "poll" ELSE "decide"]
    /\ UNCHANGED <<env, published, store, handler, parsed, response, resp_waited, resp_status,
                   sent, upstream, delpc, posted, calls>>

\* Mutant of poll_request: the loop goes on while the status is not a decision,
\* 'unknown' and 'error' included.
poll_request_awaits_decision(w) ==
    /\ pc[w] = "poll"
    /\ waited[w] < MaxPolls
    /\ \E s \in StatusReads(req[request_id(w)]) :
        /\ status' = [status EXCEPT ![w] = s]
        /\ IF s \in {"allowed", "blocked", "modified"}
           THEN /\ pc' = [pc EXCEPT ![w] = "decide"]
                /\ UNCHANGED waited
           ELSE /\ waited' = [waited EXCEPT ![w] = @ + 1]
                /\ pc' = [pc EXCEPT ![w] = IF waited[w] + 1 < MaxPolls THEN "poll" ELSE "decide"]
    /\ UNCHANGED <<env, published, store, handler, parsed, response, resp_waited, resp_status,
                   sent, upstream, delpc, posted, calls>>

\* Mutant of poll_request: the loop is `while True`, left only by a status
\* that is not 'pending'.
poll_request_uncapped(w) ==
    /\ pc[w] = "poll"
    /\ \E s \in StatusReads(req[request_id(w)]) :
        /\ status' = [status EXCEPT ![w] = s]
        /\ IF s # "pending"
           THEN /\ pc' = [pc EXCEPT ![w] = "decide"]
                /\ UNCHANGED waited
           ELSE /\ waited' = [waited EXCEPT ![w] = @ + 1]
                /\ pc' = [pc EXCEPT ![w] = "poll"]
    /\ UNCHANGED <<env, published, store, handler, parsed, response, resp_waited, resp_status,
                   sent, upstream, delpc, posted, calls>>

\* One turn of `while waited < max_wait`: read the status, leave the loop
\* when it is not 'pending', otherwise sleep half a second and count it.
poll_request(w) ==
    /\ pc[w] = "poll"
    /\ waited[w] < MaxPolls
    /\ \E s \in StatusReads(req[request_id(w)]) :
        /\ status' = [status EXCEPT ![w] = s]
        /\ IF s # "pending"
           THEN /\ pc' = [pc EXCEPT ![w] = "decide"]
                /\ UNCHANGED waited
           ELSE /\ waited' = [waited EXCEPT ![w] = @ + 1]
                /\ pc' = [pc EXCEPT ![w] = IF waited[w] + 1 < MaxPolls THEN "poll" ELSE "decide"]
    /\ UNCHANGED <<env, published, store, handler, parsed, response, resp_waited, resp_status,
                   sent, upstream, delpc, posted, calls>>

\* Mutant of decide_request: 'modified' takes the 'allowed' path.
decide_request_modified_forwards(w) ==
    /\ pc[w] = "decide"
    /\ IF status[w] \in {"allowed", "modified"}
       THEN /\ pc' = [pc EXCEPT ![w] = "reload"]
            /\ UNCHANGED sent
       ELSE /\ sent' = [sent EXCEPT ![w] = Append(@,
                    IF status[w] = "blocked" THEN Blocked403 ELSE Timeout408)]
            /\ pc' = [pc EXCEPT ![w] = "close"]
    /\ UNCHANGED <<env, published, store, handler, parsed, waited, status, response, resp_waited,
                   resp_status, upstream, delpc, posted, calls>>

\* Mutant of decide_request: 'modified' falls into the else branch.
decide_request_modified_times_out(w) ==
    /\ pc[w] = "decide"
    /\ IF status[w] = "allowed"
       THEN /\ pc' = [pc EXCEPT ![w] = "reload"]
            /\ UNCHANGED sent
       ELSE /\ sent' = [sent EXCEPT ![w] = Append(@,
                    IF status[w] = "blocked" THEN Blocked403 ELSE Timeout408)]
            /\ pc' = [pc EXCEPT ![w] = "close"]
    /\ UNCHANGED <<env, published, store, handler, parsed, waited, status, response, resp_waited,
                   resp_status, upstream, delpc, posted, calls>>

\* "Handle based on status": every branch but 'allowed' answers and ends.
decide_request(w) ==
    /\ pc[w] = "decide"
    /\ IF status[w] = "allowed"
       THEN /\ pc' = [pc EXCEPT ![w] = "reload"]
            /\ UNCHANGED sent
       ELSE /\ sent' = [sent EXCEPT ![w] = Append(@,
                    IF status[w] = "blocked" THEN Blocked403
                    ELSE IF status[w] = "modified" THEN NotImplemented501
                    ELSE Timeout408)]
            /\ pc' = [pc EXCEPT ![w] = "close"]
    /\ UNCHANGED <<env, published, store, handler, parsed, waited, status, response, resp_waited,
                   resp_status, upstream, delpc, posted, calls>>

\* Mutant of StripAcceptEncoding: only the header spelled 'Accept-Encoding'
\* is removed.
StripAcceptEncoding_exact(h) == [k \in DOMAIN h \ {"Accept-Encoding"} |-> h[k]]

\* The 'allowed' branch up to the upstream call: reload the record, take
\* method, path, headers (and body when the field is there) from it, and
\* drop every Accept-Encoding header.
StripAcceptEncoding(h) == [k \in {n \in DOMAIN h : Lower(n) # "accept-encoding"} |-> h[k]]

\* The fields the worker reads from a reloaded record with req_data[...]:
\* a missing one raises KeyError.
ReloadRaises(req_data) ==
    Exists(req_data) /\ ~({"method", "path", "headers"} \subseteq DOMAIN req_data)

Reloaded(req_data, local) ==
    IF ~Exists(req_data) THEN local
    ELSE [hostname |-> local.hostname,
          method |-> req_data.method,
          path |-> req_data.path,
          headers |-> req_data.headers,
          body |-> IF "body" \in DOMAIN req_data THEN req_data.body ELSE local.body]

reload_request(w) ==
    /\ pc[w] = "reload"
    /\ LET req_data == get_request(req[request_id(w)])
       IN IF ReloadRaises(req_data)
          THEN \* caught by the handler's outer except: nothing is sent
               /\ pc' = [pc EXCEPT ![w] = "close"]
               /\ UNCHANGED parsed
          ELSE /\ parsed' = [parsed EXCEPT ![w] =
                      [Reloaded(req_data, @) EXCEPT !.headers = StripAcceptEncoding(@)]]
               /\ pc' = [pc EXCEPT ![w] = "forward"]
    /\ UNCHANGED <<env, published, store, handler, waited, status, response, resp_waited, resp_status,
                   sent, upstream, delpc, posted, calls>>

\* path.startswith('http://') and path.startswith('/').
IsAbsolute(path) == StartsWith(path, "http://")
StartsWithSlash(path) == StartsWith(path, "/")

\* The URL of the upstream request.
Url(h, hostname, path) ==
    IF h = "tunnel" THEN "https://" \o hostname \o path
    ELSE IF IsAbsolute(path) THEN path
    ELSE "http://" \o hostname \o (IF StartsWithSlash(path) THEN path ELSE "/" \o path)

UpstreamRequest(h, r) ==
    [method |-> r.method, url |-> Url(h, r.hostname, r.path),
     headers |-> r.headers, body |-> r.body]

\* requests.request(...): the request goes upstream; a response comes back,
\* or the call raises and the except branch answers 502.
forward_request(w) ==
    /\ pc[w] = "forward"
    /\ upstream' = [upstream EXCEPT ![w] = Append(@, UpstreamRequest(handler[w], parsed[w]))]
    /\ \/ \E r \in UpstreamResponses :
            /\ response' = [response EXCEPT ![w] = r]
            /\ pc' = [pc EXCEPT ![w] = "save_response_hset"]
            /\ UNCHANGED sent
       \/ /\ sent' = [sent EXCEPT ![w] = Append(@, BadGateway502)]
          /\ pc' = [pc EXCEPT ![w] = "close"]
          /\ UNCHANGED response
    /\ UNCHANGED <<env, published, store, handler, parsed, waited, status, resp_waited, resp_status,
                   delpc, posted, calls>>

\* Filter mode, "Forward Request Automatically": the request goes upstream
\* as it was parsed; a response comes back, or the call raises and the
\* except branch answers 502.
filter_forward(w) ==
    /\ pc[w] = "filter_forward"
    /\ upstream' = [upstream EXCEPT ![w] = Append(@, UpstreamRequest(handler[w], parsed[w]))]
    /\ \/ \E r \in UpstreamResponses :
            /\ response' = [response EXCEPT ![w] = r]
            /\ pc' = [pc EXCEPT ![w] = "blocked_keywords"]
            /\ UNCHANGED sent
       \/ /\ sent' = [sent EXCEPT ![w] = Append(@, BadGateway502)]
          /\ pc' = [pc EXCEPT ![w] = "close"]
          /\ UNCHANGED response
    /\ UNCHANGED <<store, handler, parsed, waited, status, resp_waited, resp_status,
                   delpc, posted, calls, published, env>>

\* Mutant of MatchingKeywords: a keyword matches when it is the whole text.
MatchingKeywords_whole(keywords, text) == {k \in keywords : k = text}

\* The keywords of the set that occur in the decoded body.
MatchingKeywords(keywords, text) == {k \in keywords : Contains(text, k)}

\* "Check Blocked Keywords in Response": the set is read when the response
\* has arrived; the first keyword of the iteration that occurs in
\* response.text gives the 403 page (a set iterates in no fixed order),
\* and with no such keyword the response is forwarded.
check_blocked_keywords(w) ==
    /\ pc[w] = "blocked_keywords"
    /\ LET matching == MatchingKeywords(get_blocked_keywords, response[w].text)
       IN IF matching # {}
          THEN \E k \in matching : sent' = [sent EXCEPT ![w] = Append(@, KeywordPage(k))]
          ELSE sent' = [sent EXCEPT ![w] = Append(@, FilterResponse(response[w]))]
    /\ pc' = [pc EXCEPT ![w] = "close"]
    /\ UNCHANGED <<store, handler, parsed, waited, status, response, resp_waited,
                   resp_status, upstream, delpc, posted, calls, published, env>>

\* save_response has raised: its except branch returns False, the EXPIRE is
\* skipped when it was left, and the handler enters the response wait with
\* resp_waited = 0, resp_status = 'pending'.
save_response_raises(w) ==
    /\ resp_waited' = [resp_waited EXCEPT ![w] = 0]
    /\ resp_status' = [resp_status EXCEPT ![w] = "pending"]
    /\ pc' = [pc EXCEPT ![w] = "poll_response"]
    /\ UNCHANGED <<env, published, store, handler, parsed, waited, status, response, sent,
                   upstream, delpc, posted, calls>>

\* save_response, first command: hset(response:<id>, mapping=response_data).
save_response_hset(w) ==
    /\ pc[w] = "save_response_hset"
    /\ IF Raises THEN save_response_raises(w)
       ELSE
        /\ resp' = [resp EXCEPT ![request_id(w)] = HSet(@, response_data(response[w]))]
        /\ pc' = [pc EXCEPT ![w] = "save_response_expire"]
        /\ UNCHANGED <<env, published, req, reqTTL, respTTL, pending, handler, parsed, waited,
                       status, response, resp_waited, resp_status, sent, upstream, delpc, posted,
                       calls>>

\* save_response, second command: expire(response:<id>, 3600).  The worker
\* then enters the response wait with resp_waited = 0.
save_response_expire(w) ==
    /\ pc[w] = "save_response_expire"
    /\ IF Raises THEN save_response_raises(w)
       ELSE
        /\ respTTL' = [respTTL EXCEPT ![request_id(w)] =
                        Expire(resp[request_id(w)], @, TTL_SECONDS)]
        /\ resp_waited' = [resp_waited EXCEPT ![w] = 0]
        /\ resp_status' = [resp_status EXCEPT ![w] = "pending"]
        /\ pc' = [pc EXCEPT ![w] = "poll_response"]
        /\ UNCHANGED <<env, published, req, reqTTL, resp, pending, handler, parsed, waited,
                       status, response, sent, upstream, delpc, posted, calls>>

\* One turn of `while resp_waited < max_wait`.
poll_response(w) ==
    /\ pc[w] = "poll_response"
    /\ resp_waited[w] < MaxPolls
    /\ \E s \in StatusReads(resp[request_id(w)]) :
        /\ resp_status' = [resp_status EXCEPT ![w] = s]
        /\ IF s # "pending"
           THEN /\ pc' = [pc EXCEPT ![w] = "decide_response"]
                /\ UNCHANGED resp_waited
           ELSE /\ resp_waited' = [resp_waited EXCEPT ![w] = @ + 1]
                /\ pc' = [pc EXCEPT ![w] =
                       IF resp_waited[w] + 1 < MaxPolls THEN "poll_response" ELSE "decide_response"]
    /\ UNCHANGED <<env, published, store, handler, parsed, waited, status, response, sent, upstream,
                   delpc, posted, calls>>

\* Mutant of decide_response: a response wait that timed out sends the worker
\* back into the request wait.
decide_response_waits_again(w) ==
    /\ pc[w] = "decide_response"
    /\ IF resp_status[w] = "pending"
       THEN /\ pc' = [pc EXCEPT ![w] = "poll"]
            /\ UNCHANGED sent
       ELSE /\ sent' = [sent EXCEPT ![w] = Append(@,
                    IF resp_status[w] = "allowed"
                    THEN AllowedResponse(get_response(resp[request_id(w)]), response[w])
                    ELSE IF resp_status[w] = "blocked" THEN Blocked403
                    ELSE GatewayTimeout504)]
            /\ pc' = [pc EXCEPT ![w] = "close"]
    /\ UNCHANGED <<env, published, store, handler, parsed, waited, status, response, resp_waited,
                   resp_status, upstream, delpc, posted, calls>>

\* The answer of the response phase: 'allowed' reloads the response record
\* and writes it, 'blocked' gives 403, anything else 504.
decide_response(w) ==
    /\ pc[w] = "decide_response"
    /\ sent' = [sent EXCEPT ![w] = Append(@,
            IF resp_status[w] = "allowed"
            THEN AllowedResponse(get_response(resp[request_id(w)]), response[w])
            ELSE IF resp_status[w] = "blocked" THEN Blocked403
            ELSE GatewayTimeout504)]
    /\ pc' = [pc EXCEPT ![w] = "close"]
    /\ UNCHANGED <<env, published, store, handler, parsed, waited, status, response, resp_waited,
                   resp_status, upstream, delpc, posted, calls>>

\* The header names of the model's data in the order the dicts list them
\* (resp_headers.items() goes through a dict in insertion order).
HeaderOrder ==
    <<"Server", "Content-Length", "Content-Encoding", "Content-Type", "Host",
      "Accept-Encoding", "accept-encoding", "Via">>
KeysInOrder(h) == SelectSeq(HeaderOrder, LAMBDA k : k \in DOMAIN h)

\* What the client has of a response when n of its header lines were sent
\* after the status line, and neither the rest nor the body.
Partial(r, n) ==
    [code |-> r.code,
     headers |-> [k \in {KeysInOrder(r.headers)[i] : i \in 1..n} |-> r.headers[k]],
     body |-> ""]

\* The try block of the response phase raises (a send fails, or a header or
\* the body of a forwarded response cannot be encoded), and its except
\* branch sends 502 on the same socket.  In the 'allowed' branch: before the
\* status line has been sent the 502 is all the client gets; after it, the
\* client has the status line and the header lines sent so far (all of them
\* when the empty line or the body raises), then the 502.  In the 'blocked'
\* and the timed-out branch the one send of the 403 or the 504 raises, and
\* the client gets the 502.  When the socket is what failed (the client is
\* gone), the send of the 502 raises as well, the handler's outer except
\* only prints, and the client has what was sent before the first raise:
\* nothing, or the status line and some header lines.
forward_response_raises(w) ==
    /\ pc[w] = "decide_response"
    /\ IF resp_status[w] = "allowed"
       THEN LET r == AllowedResponse(get_response(resp[request_id(w)]), response[w])
            IN \/ sent' = [sent EXCEPT ![w] = Append(@, BadGateway502)]
               \/ sent' = sent
               \/ \E n \in 0..Len(KeysInOrder(r.headers)) :
                     \/ sent' = [sent EXCEPT ![w] = @ \o <<Partial(r, n), BadGateway502>>]
                     \/ sent' = [sent EXCEPT ![w] = Append(@, Partial(r, n))]
       ELSE \/ sent' = [sent EXCEPT ![w] = Append(@, BadGateway502)]
            \/ sent' = sent
    /\ pc' = [pc EXCEPT ![w] = "close"]
    /\ UNCHANGED <<env, published, store, handler, parsed, waited, status, response, resp_waited,
                   resp_status, upstream, delpc, posted, calls>>

\* The header lines of a response forwarded in filter mode, in the order
\* they are sent: the upstream headers that are kept, then Content-Length.
FilterKeys(h) ==
    SelectSeq(HeaderOrder,
              LAMBDA k : k \in DOMAIN h /\ Lower(k) \notin FilterSkippedHeaders)
        \o <<"Content-Length">>

\* What the client has of a response forwarded in filter mode when n of its
\* header lines were sent after the status line.
FilterPartial(r, n) ==
    [code |-> r.status_code,
     headers |-> [k \in {FilterKeys(r.headers)[i] : i \in 1..n} |->
                    FilterHeaders(r.headers, r.content)[k]],
     body |-> ""]

\* Filter mode, after the upstream response has arrived: the send of the
\* keyword page, or a send of the forwarded response, raises inside the try
\* block, whose except branch sends 502; that send raises too when the
\* client is gone.
filter_response_raises(w) ==
    /\ pc[w] = "blocked_keywords"
    /\ IF MatchingKeywords(get_blocked_keywords, response[w].text) # {}
       THEN \/ sent' = [sent EXCEPT ![w] = Append(@, BadGateway502)]
            \/ sent' = sent
       ELSE \/ sent' = [sent EXCEPT ![w] = Append(@, BadGateway502)]
            \/ sent' = sent
            \/ \E n \in 0..Len(FilterKeys(response[w].headers)) :
                  \/ sent' = [sent EXCEPT ![w] =
                                @ \o <<FilterPartial(response[w], n), BadGateway502>>]
                  \/ sent' = [sent EXCEPT ![w] = Append(@, FilterPartial(response[w], n))]
    /\ pc' = [pc EXCEPT ![w] = "close"]
    /\ UNCHANGED <<store, handler, parsed, waited, status, response, resp_waited,
                   resp_status, upstream, delpc, posted, calls, published, env>>

\* A send that is not inside a try block of its own raises: the 400 of the
\* CONNECT handler, the 200 that establishes the tunnel, the page of a
\* blocked domain, the 403, 501 or 408 of the request phase, and the 502
\* sent from an except branch after the upstream call has raised.  The
\* handler's outer except only prints: nothing is sent.
send_raises(w) ==
    /\ \/ /\ pc[w] = "recv"
          /\ client[w] # NoInput
          /\ Routes[client[w]].connect
          /\ Routes[client[w]].hostname = None
          /\ handler' = [handler EXCEPT ![w] = "tunnel"]
          /\ parsed' = [parsed EXCEPT ![w] = [NoRequest EXCEPT !.hostname = None]]
          /\ UNCHANGED upstream
       \/ /\ pc[w] = "established"
          /\ UNCHANGED <<handler, parsed, upstream>>
       \/ /\ pc[w] = "blocked_domains"
          /\ parsed[w].hostname \in get_blocked_domains
          /\ UNCHANGED <<handler, parsed, upstream>>
       \/ /\ pc[w] = "decide"
          /\ status[w] # "allowed"
          /\ UNCHANGED <<handler, parsed, upstream>>
       \/ /\ pc[w] \in {"forward", "filter_forward"}
          /\ upstream' = [upstream EXCEPT ![w] =
                            Append(@, UpstreamRequest(handler[w], parsed[w]))]
          /\ UNCHANGED <<handler, parsed>>
    /\ pc' = [pc EXCEPT ![w] = "close"]
    /\ UNCHANGED <<store, waited, status, response, resp_waited, resp_status, sent,
                   delpc, posted, calls, published, env>>

\* Mutant of close: the worker deletes its request record when it is done.
close_cleans_up(w) ==
    /\ pc[w] = "close"
    /\ pc' = [pc EXCEPT ![w] = "done"]
    /\ req' = [req EXCEPT ![request_id(w)] = NoHash]
    /\ UNCHANGED <<env, published, reqTTL, resp, respTTL, pending, handler, parsed, waited,
                   status, response, resp_waited, resp_status, sent, upstream, delpc, posted,
                   calls>>

\* finally: the socket is closed.
close(w) ==
    /\ pc[w] = "close"
    /\ pc' = [pc EXCEPT ![w] = "done"]
    /\ UNCHANGED <<env, published, store, handler, parsed, waited, status, response, resp_waited,
                   resp_status, sent, upstream, delpc, posted, calls>>

(***************************************************************************)
(* proxy_api.py: the two decision endpoints.                               *)
(***************************************************************************)
\* One more call of the control plane on an id.  The control plane learns
\* the ids from pending_requests (GET /api/requests), so it calls on ids
\* that were pushed onto the list.
Call(id) ==
    /\ id \in published
    /\ calls[id] > 0
    /\ calls' = [calls EXCEPT ![id] = @ - 1]

\* The worker of an id is inside its request-decision loop.
Polling(id) == pc[id] = "poll"

\* The endpoint calls remembered for the claims: those made while the
\* worker of the id is polling.
Posted(id, call) ==
    posted' = [posted EXCEPT ![id] = IF Polling(id) THEN @ \cup {call} ELSE @]

\* POST /api/requests/<id>/allow: the body of the view is `return`.
allow_request(id) ==
    /\ Call(id)
    /\ Posted(id, "allow")
    /\ UNCHANGED <<env, published, store, worker, delpc>>

\* POST /api/requests/<id>/block calls delete_request, whose first command
\* is delete(request:<id>) ...
block_request(id) ==
    /\ id \notin delpc
    /\ Call(id)
    /\ Posted(id, "block")
    /\ IF Raises
       THEN \* the except branch of delete_request returns False: no LREM
            UNCHANGED <<req, reqTTL, delpc>>
       ELSE /\ req' = [req EXCEPT ![id] = NoHash]
            /\ reqTTL' = [reqTTL EXCEPT ![id] = NoTTL]
            /\ delpc' = delpc \cup {id}
    /\ UNCHANGED <<env, published, resp, respTTL, pending, worker>>

\* ... and whose second command is lrem(pending_requests, 0, id).
delete_request_lrem(id) ==
    /\ id \in delpc
    /\ pending' = IF Raises THEN pending ELSE LRem(pending, id)
    /\ delpc' = delpc \ {id}
    /\ UNCHANGED <<env, published, req, reqTTL, resp, respTTL, worker, posted, calls>>

\* GET /api/requests: lrange(pending_requests, 0, -1), then get_request
\* (one hgetall) for every id of the list and a summary of five of its
\* fields; the other threads run between the commands.  get_request returns
\* None for an id without a record; req['id'] on None raises and Flask
\* answers 500.
SummaryFields == {"id", "hostname", "method", "path", "timestamp"}
Summary(r) == [f \in SummaryFields |-> r[f]]
InternalError500 == [code |-> 500, body |-> <<>>]

\* get_pending_requests: the ids of the list as they are now, [] when
\* LRANGE raises; with none the loop has no turn and the view answers the
\* empty list.
view_lrange ==
    /\ view.pc = "idle"
    /\ view' = IF Raises \/ pending = <<>>
               THEN [pc |-> "done", ids |-> <<>>, list |-> <<>>,
                     answer |-> [code |-> 200, body |-> <<>>]]
               ELSE [pc |-> "loop", ids |-> pending, list |-> <<>>, answer |-> NoAnswer]
    /\ UNCHANGED <<store, worker, delpc, posted, calls, published, config, cache, tunnel,
                   client, api, server, rm_files, orphaned, raw, request, clear, redis>>

\* One turn of the loop: get_request of the next id and its summary; after
\* the last id the list is returned with 200.
view_get_request ==
    /\ view.pc = "loop"
    /\ LET req_id == view.ids[Len(view.list) + 1]
           r == get_request(req[req_id])
           requests_list == Append(view.list, Summary(r))
       IN view' =
            IF ~(SummaryFields \subseteq DOMAIN r)
            THEN [view EXCEPT !.pc = "done", !.answer = InternalError500]
            ELSE IF Len(requests_list) = Len(view.ids)
            THEN [view EXCEPT !.pc = "done", !.list = requests_list,
                              !.answer = [code |-> 200, body |-> requests_list]]
            ELSE [view EXCEPT !.list = requests_list]
    /\ UNCHANGED <<store, worker, delpc, posted, calls, published, config, cache, tunnel,
                   client, api, server, rm_files, orphaned, raw, request, clear, redis>>

View ==
    \/ view_lrange
    \/ view_get_request

(***************************************************************************)
(* redis_storage.py: the write operations the control plane has on the     *)
(* records, each a single hset; when it raises the except branch returns   *)
(* False and nothing is written.                                           *)
(***************************************************************************)
update_request_status(id, s) ==
    /\ Call(id)
    /\ req' = IF Raises THEN req ELSE [req EXCEPT ![id] = HSet(@, [status |-> s])]
    /\ UNCHANGED <<env, published, reqTTL, resp, respTTL, pending, worker, delpc, posted>>

update_response_status(id, s) ==
    /\ Call(id)
    /\ resp' = IF Raises THEN resp ELSE [resp EXCEPT ![id] = HSet(@, [status |-> s])]
    /\ UNCHANGED <<env, published, req, reqTTL, respTTL, pending, worker, delpc, posted>>

update_request_data(id, headers, body) ==
    /\ Call(id)
    /\ req' = IF Raises THEN req ELSE [req EXCEPT ![id] = HSet(@, updates(headers, body))]
    /\ UNCHANGED <<env, published, reqTTL, resp, respTTL, pending, worker, delpc, posted>>

update_response_data(id, headers, body) ==
    /\ Call(id)
    /\ resp' = IF Raises THEN resp ELSE [resp EXCEPT ![id] = HSet(@, updates(headers, body))]
    /\ UNCHANGED <<env, published, req, reqTTL, respTTL, pending, worker, delpc, posted>>

(***************************************************************************)
(* redis_storage.py: set_modified_body and clear_all_requests, which       *)
(* nothing in the proxy, its API or its GUI calls.                         *)
(***************************************************************************)
\* Bodies set_modified_body is handed.
ModifiedBodies == {"replaced"}

\* set_modified_body: hset(request:<id>, "modified_body", modified_body).
set_modified_body(id, modified_body) ==
    /\ Call(id)
    /\ req' = IF Raises THEN req ELSE [req EXCEPT ![id] = HSet(@, [modified_body |-> modified_body])]
    /\ UNCHANGED <<env, published, reqTTL, resp, respTTL, pending, worker, delpc, posted>>

\* clear_all_requests: lrange(pending_requests, 0, -1) ...  A command that
\* raises ends the call: the except branch returns False.
clear_lrange ==
    /\ clear.pc = "idle"
    /\ clear' = IF Raises THEN [pc |-> "done", ids |-> <<>>]
                ELSE [pc |-> "loop", ids |-> pending]
    /\ UNCHANGED <<store, worker, delpc, posted, calls, published, config, cache, tunnel,
                   client, api, server, rm_files, orphaned, raw, request, view, redis>>

\* ... delete(request:<id>) for each id it read ...
clear_delete ==
    /\ clear.pc = "loop"
    /\ clear.ids # <<>>
    /\ IF Raises
       THEN /\ clear' = [clear EXCEPT !.pc = "done"]
            /\ UNCHANGED <<req, reqTTL>>
       ELSE /\ req' = [req EXCEPT ![Head(clear.ids)] = NoHash]
            /\ reqTTL' = [reqTTL EXCEPT ![Head(clear.ids)] = NoTTL]
            /\ clear' = [clear EXCEPT !.ids = Tail(@)]
    /\ UNCHANGED <<resp, respTTL, pending, worker, delpc, posted, calls, published, config,
                   cache, tunnel, client, api, server, rm_files, orphaned, raw, request, view, redis>>

\* ... and delete(pending_requests): the whole list is gone, the ids pushed
\* since the lrange included; the response records and the policy
\* configuration stay.
clear_list ==
    /\ clear.pc = "loop"
    /\ clear.ids = <<>>
    /\ pending' = IF Raises THEN pending ELSE <<>>
    /\ clear' = [clear EXCEPT !.pc = "done"]
    /\ UNCHANGED <<req, reqTTL, resp, respTTL, worker, delpc, posted, calls, published, config,
                   cache, tunnel, client, api, server, rm_files, orphaned, raw, request, view, redis>>

Unused ==
    \/ \E id \in Ids, b \in ModifiedBodies : set_modified_body(id, b)
    \/ clear_lrange
    \/ clear_delete
    \/ clear_list

(***************************************************************************)
(* Redis: a key with an expiry is removed when the expiry has run out.  An *)
(* hour does not pass inside the decision wait of max_wait seconds that    *)
(* starts when the expiry is set; it can pass while the worker is blocked  *)
(* in the upstream call, which has no timeout, and once it has finished.   *)
(***************************************************************************)
expire_request(id) ==
    /\ reqTTL[id] # NoTTL
    /\ pc[id] \notin {"save_status", "poll", "decide", "reload"}
    /\ req' = [req EXCEPT ![id] = NoHash]
    /\ reqTTL' = [reqTTL EXCEPT ![id] = NoTTL]
    /\ UNCHANGED <<env, published, resp, respTTL, pending, worker, delpc, posted, calls>>

\* Time passes on a record that has its full hour: less than the hour is left.
age_request(id) ==
    /\ reqTTL[id] = TTL_SECONDS
    /\ reqTTL' = [reqTTL EXCEPT ![id] = TTL_SECONDS - Tick]
    /\ UNCHANGED <<env, published, req, resp, respTTL, pending, worker, delpc, posted, calls>>

expire_response(id) ==
    /\ respTTL[id] # NoTTL
    /\ pc[id] \notin {"poll_response", "decide_response"}
    /\ resp' = [resp EXCEPT ![id] = NoHash]
    /\ respTTL' = [respTTL EXCEPT ![id] = NoTTL]
    /\ UNCHANGED <<env, published, req, reqTTL, pending, worker, delpc, posted, calls>>

(***************************************************************************)
(* redis_storage.py: the policy configuration.                             *)
(***************************************************************************)
\* The values set_proxy_mode accepts, and the arguments it is called with.
ValidModes == {"intercept", "filter"}
ModeArgs == ValidModes \cup {"transparent", ""}

\* Mutant of set_proxy_mode: the mode is stored without the membership test.
set_proxy_mode_unchecked(mode) ==
    /\ proxy_mode' = mode
    /\ mode_set' = mode
    /\ returned' = Returned("set_proxy_mode", mode, "True")
    /\ UNCHANGED <<store, worker, delpc, posted, calls, published, blocked_domains,
                   blocked_keywords, cache, tunnel, client, aux>>

\* set_proxy_mode(mode): False when mode is not 'intercept' or 'filter',
\* otherwise SET proxy_config:mode and True; when the SET raises (the store
\* cannot be reached) the except branch returns False.
set_proxy_mode(mode) ==
    /\ IF mode \notin ValidModes
       THEN /\ returned' = Returned("set_proxy_mode", mode, "False")
            /\ UNCHANGED <<proxy_mode, mode_set>>
       ELSE IF Raises
       THEN /\ returned' = Returned("set_proxy_mode", mode, "False")
            /\ UNCHANGED <<proxy_mode, mode_set>>
       ELSE /\ proxy_mode' = mode
            /\ mode_set' = mode
            /\ returned' = Returned("set_proxy_mode", mode, "True")
    /\ UNCHANGED <<store, worker, delpc, posted, calls, published, blocked_domains,
                   blocked_keywords, cache, tunnel, client, aux>>

\* A call of get_proxy_mode(): the stored mode, 'intercept' when none is
\* stored; when the GET raises (the store cannot be reached) the except
\* branch returns 'intercept' whatever is stored.
call_get_proxy_mode ==
    /\ returned' = Returned("get_proxy_mode", "", read_proxy_mode)
    /\ UNCHANGED <<store, worker, delpc, posted, calls, published, config, cache, tunnel,
                   client, aux, mode_set>>

\* add_blocked_domain / remove_blocked_domain: SADD and SREM on
\* proxy_config:blocked_domains; both return True, and False from the except
\* branch when the command raises.
add_blocked_domain(domain) ==
    /\ IF Raises
       THEN /\ returned' = Returned("add_blocked_domain", domain, "False")
            /\ UNCHANGED blocked_domains
       ELSE /\ blocked_domains' = blocked_domains \cup {domain}
            /\ returned' = Returned("add_blocked_domain", domain, "True")
    /\ UNCHANGED <<store, worker, delpc, posted, calls, published, proxy_mode,
                   blocked_keywords, cache, tunnel, client, aux, mode_set>>

remove_blocked_domain(domain) ==
    /\ IF Raises
       THEN /\ returned' = Returned("remove_blocked_domain", domain, "False")
            /\ UNCHANGED blocked_domains
       ELSE /\ blocked_domains' = blocked_domains \ {domain}
            /\ returned' = Returned("remove_blocked_domain", domain, "True")
    /\ UNCHANGED <<store, worker, delpc, posted, calls, published, proxy_mode,
                   blocked_keywords, cache, tunnel, client, aux, mode_set>>

\* add_blocked_keyword / remove_blocked_keyword, on
\* proxy_config:blocked_keywords.
add_blocked_keyword(keyword) ==
    /\ IF Raises
       THEN /\ returned' = Returned("add_blocked_keyword", keyword, "False")
            /\ UNCHANGED blocked_keywords
       ELSE /\ blocked_keywords' = blocked_keywords \cup {keyword}
            /\ returned' = Returned("add_blocked_keyword", keyword, "True")
    /\ UNCHANGED <<store, worker, delpc, posted, calls, published, proxy_mode,
                   blocked_domains, cache, tunnel, client, aux, mode_set>>

remove_blocked_keyword(keyword) ==
    /\ IF Raises
       THEN /\ returned' = Returned("remove_blocked_keyword", keyword, "False")
            /\ UNCHANGED blocked_keywords
       ELSE /\ blocked_keywords' = blocked_keywords \ {keyword}
            /\ returned' = Returned("remove_blocked_keyword", keyword, "True")
    /\ UNCHANGED <<store, worker, delpc, posted, calls, published, proxy_mode,
                   blocked_domains, cache, tunnel, client, aux, mode_set>>

(***************************************************************************)
(* proxyserver.py, start: the shutdown of the main thread.                 *)
(***************************************************************************)
\* KeyboardInterrupt is raised in the main thread, which leaves its accept
\* loop for the except branch; the listening socket stays open.
interrupt ==
    /\ server = "listening"
    /\ server' = "interrupted"
    /\ UNCHANGED <<store, worker, delpc, posted, calls, published, config, cache, tunnel,
                   client, api, rm_files, orphaned, raw, request, view, clear, redis>>

\* The files of the cache directory and their names.
CacheFile(hostname, ext) == [hostname |-> hostname, ext |-> ext]
FileName(f) == f.hostname \o "." \o f.ext
InCache ==
    { CacheFile(h, "crt") : h \in {g \in Hostnames : cert_file[g] # NoMint} } \cup
    { CacheFile(h, "key") : h \in {g \in Hostnames : key_file[g] # NoMint} }

\* The order of two names, character by character in the order of their
\* codes; a name comes after its proper prefixes.
CharCodes == "-.0123456789ABCDEFGHIJKLMNOPQRSTUVWXYZ_abcdefghijklmnopqrstuvwxyz"
RECURSIVE NameLess(_, _)
NameLess(a, b) ==
    IF b = "" THEN FALSE
    ELSE IF a = "" THEN TRUE
    ELSE IF Slice(a, 1, 1) = Slice(b, 1, 1)
         THEN NameLess(Slice(a, 2, Len(a)), Slice(b, 2, Len(b)))
         ELSE Find(CharCodes, Slice(a, 1, 1)) < Find(CharCodes, Slice(b, 1, 1))

RECURSIVE SortFiles(_)
SortFiles(files) ==
    IF files = {} THEN <<>>
    ELSE LET first == CHOOSE f \in files :
                        \A g \in files \ {f} : NameLess(FileName(f), FileName(g))
         IN <<first>> \o SortFiles(files \ {first})

\* os.system("rm -R ./certs/*"): the shell expands the pattern to the names
\* in the directory that do not start with a dot, in sorted order, and
\* starts rm on them; with no such name rm is handed the pattern itself,
\* fails on it and removes nothing.
purge_glob ==
    /\ server = "interrupted"
    /\ LET files == SortFiles({f \in InCache : ~StartsWith(FileName(f), ".")})
       IN /\ rm_files' = files
          /\ server' = IF files = <<>> THEN "purged" ELSE "purging"
    /\ UNCHANGED <<store, worker, delpc, posted, calls, published, config, cache, tunnel,
                   client, api, orphaned, raw, request, view, clear, redis>>

\* The workers that have opened the file and not yet written it.
Writers(f) ==
    { <<w, f.ext>> : w \in {v \in Conns : /\ parsed[v].hostname = f.hostname
                                          /\ pc[v] = (IF f.ext = "crt" THEN "write_cert"
                                                      ELSE "write_key")} }

\* rm unlinks its next file, while the threads of the proxy run; os.system
\* returns after the last one.
purge_unlink ==
    /\ server = "purging"
    /\ LET f == Head(rm_files)
       IN /\ IF f.ext = "crt"
             THEN /\ cert_file' = [cert_file EXCEPT ![f.hostname] = NoMint]
                  /\ UNCHANGED key_file
             ELSE /\ key_file' = [key_file EXCEPT ![f.hostname] = NoMint]
                  /\ UNCHANGED cert_file
          /\ orphaned' = orphaned \cup Writers(f)
    /\ rm_files' = Tail(rm_files)
    /\ server' = IF Tail(rm_files) = <<>> THEN "purged" ELSE "purging"
    /\ UNCHANGED <<store, worker, delpc, posted, calls, published, config, tunnel,
                   client, api, raw, request, view, clear, redis>>

\* flush_all_instances: flushdb removes every key, the records, the list and
\* the policy configuration.  It has no try block: when flushdb raises, the
\* exception leaves start before server.close() and ends the process, and
\* the listening socket with it.
flush_all_instances ==
    /\ server = "purged"
    /\ IF Raises
       THEN /\ server' = "closed"
            /\ UNCHANGED <<store, config>>
       ELSE /\ req' = [i \in Ids |-> NoHash]
            /\ reqTTL' = [i \in Ids |-> NoTTL]
            /\ resp' = [i \in Ids |-> NoHash]
            /\ respTTL' = [i \in Ids |-> NoTTL]
            /\ pending' = <<>>
            /\ proxy_mode' = None
            /\ blocked_domains' = {}
            /\ blocked_keywords' = {}
            /\ server' = "flushed"
    /\ UNCHANGED <<worker, delpc, posted, calls, published, cache, tunnel,
                   client, api, rm_files, orphaned, raw, request, view, clear, redis>>

\* server.close(): the listening socket is closed; start returns and the
\* process ends, and the daemon threads of the workers and the API with it.
server_close ==
    /\ server = "flushed"
    /\ server' = "closed"
    /\ UNCHANGED <<store, worker, delpc, posted, calls, published, config, cache, tunnel,
                   client, api, rm_files, orphaned, raw, request, view, clear, redis>>

Shutdown ==
    \/ interrupt
    \/ purge_glob
    \/ purge_unlink
    \/ flush_all_instances
    \/ server_close

(***************************************************************************)
(* The system.                                                             *)
(***************************************************************************)
Worker(w) ==
    \/ Accept(w)
    \/ handle_client(w)
    \/ open_cert(w)
    \/ write_cert(w)
    \/ open_key(w)
    \/ write_key(w)
    \/ send_established(w)
    \/ load_cert(w)
    \/ load_key(w)
    \/ read_request(w)
    \/ filter_mode_check(w)
    \/ check_blocked_domains(w)
    \/ filter_forward(w)
    \/ check_blocked_keywords(w)
    \/ save_request_hset(w)
    \/ save_request_lpush(w)
    \/ save_request_expire(w)
    \/ save_request_status(w)
    \/ poll_request(w)
    \/ decide_request(w)
    \/ reload_request(w)
    \/ forward_request(w)
    \/ save_response_hset(w)
    \/ save_response_expire(w)
    \/ poll_response(w)
    \/ decide_response(w)
    \/ close(w)

ControlPlane(id) ==
    \/ allow_request(id)
    \/ block_request(id)
    \/ delete_request_lrem(id)
    \/ \E s \in StatusValues : update_request_status(id, s)
    \/ \E s \in StatusValues : update_response_status(id, s)
    \/ \E h \in EditedHeaders, b \in EditedBodies : update_request_data(id, h, b)
    \/ \E h \in EditedHeaders, b \in EditedBodies : update_response_data(id, h, b)

Redis(id) ==
    \/ expire_request(id)
    \/ expire_response(id)

Next ==
    \/ \E w \in Conns : Worker(w)
    \/ \E id \in Ids : ControlPlane(id)
    \/ \E id \in Ids : Redis(id)

Spec == Init /\ [][Next]_vars

\* Two connections and their ids, with MaxCallsTwo control-plane calls.
SpecTwo == InitWith(Conns, {Budget(i, MaxCallsTwo) : i \in Ids}, ClientInputs, {""}) /\ [][Next]_vars

\* Two connections that each send a request, with MaxCallsPair control-plane
\* calls on the second id and none on the first.
SpecPair == InitWith(Conns, {Budget(MaxConn, MaxCallsPair)}, RequestInputs, {""}) /\ [][Next]_vars

\* The calls on the policy configuration.
Configure ==
    \/ \E mode \in ModeArgs : set_proxy_mode(mode)
    \/ call_get_proxy_mode
    \/ \E domain \in Domains : add_blocked_domain(domain)
    \/ \E domain \in Domains : remove_blocked_domain(domain)
    \/ \E keyword \in Keywords : add_blocked_keyword(keyword)
    \/ \E keyword \in Keywords : remove_blocked_keyword(keyword)

\* One connection, with every worker thread scheduled again and again and
\* every blocking call of a worker returning.
SpecLive == Init /\ [][Next]_vars /\ \A w \in Conns : WF_vars(Worker(w))

\* One connection, with the time left of a record's hour going down.
NextClock ==
    \/ Next
    \/ \E id \in Ids : age_request(id)

SpecClock == Init /\ [][NextClock]_vars

\* One connection, with the interrupt arriving at any time; the threads run
\* until the process ends.
NextShutdown ==
    \/ server # "closed" /\ Next
    \/ Shutdown

SpecShutdown ==
    InitWith({1}, {Budget(1, MaxCallsInputs)}, ClientInputs, {""}) /\ [][NextShutdown]_vars

\* One connection, the interrupt at any time and one call of GET
\* /api/requests.
NextView ==
    \/ NextShutdown
    \/ server # "closed" /\ View

SpecView ==
    InitWith({1}, {Budget(1, MaxCallsInputs)}, ClientInputs, {""}) /\ [][NextView]_vars

\* One connection, with the storage operations nothing calls.
NextUnused ==
    \/ Next
    \/ Unused

SpecUnused ==
    InitWith({1}, {Budget(1, MaxCallsInputs)}, ClientInputs, {""}) /\ [][NextUnused]_vars

\* One connection whose sends to the client can raise; the client sends a
\* well-formed input or a CONNECT line without a hostname.
FaultInputs == ClientInputs \cup { Input("CONNECT", r) : r \in ClientRequests }

\* The number of times the Redis server stops answering in a run.
MaxOutages == 1

\* The Redis server stops answering: from here every command of the client
\* raises ConnectionError.
redis_down ==
    /\ redis.state = "up"
    /\ redis.outages < MaxOutages
    /\ redis' = [state |-> "down", outages |-> redis.outages + 1]
    /\ UNCHANGED <<store, worker, delpc, posted, calls, published, config, cache, tunnel,
                   client, api, server, rm_files, orphaned, raw, request, view, clear>>

\* The Redis server answers again, with the keys it had.
redis_up ==
    /\ redis.state = "down"
    /\ redis' = [redis EXCEPT !.state = "up"]
    /\ UNCHANGED <<store, worker, delpc, posted, calls, published, config, cache, tunnel,
                   client, api, server, rm_files, orphaned, raw, request, view, clear>>

NextFaults ==
    \/ Next
    \/ \E w \in Conns : forward_response_raises(w)
    \/ \E w \in Conns : filter_response_raises(w)
    \/ \E w \in Conns : send_raises(w)

\* One connection, with the Redis server stopping to answer at any point of
\* the run and answering again at any later one.
NextStore ==
    \/ Next
    \/ redis_down
    \/ redis_up

SpecStore == Init /\ [][NextStore]_vars

SpecFaults == InitWith({1}, {Budget(1, MaxCalls)}, FaultInputs, {""}) /\ [][NextFaults]_vars

\* A call of parse_request on raw_data.
parse ==
    /\ request = NoParse
    /\ request' = parse_request(raw)
    /\ UNCHANGED <<store, worker, delpc, posted, calls, published, config, cache, tunnel,
                   client, api, server, rm_files, orphaned, raw, view, clear, redis>>

\* The calls of parse_request alone, one on each raw input.
SpecParse == InitWith({}, {Budget(1, 0)}, ClientInputs, RawInputs) /\ [][parse]_vars

\* The policy configuration alone, with no connection arriving (the cache
\* stays empty), and the shutdown of the proxy at any time.
NextConfig ==
    \/ server # "closed" /\ Configure
    \/ interrupt
    \/ purge_glob
    \/ flush_all_instances
    \/ server_close
    \/ redis_down
    \/ redis_up

SpecConfig == InitWith({}, {Budget(1, 0)}, ClientInputs, {""}) /\ [][NextConfig]_vars

\* One connection whose client sends any of AllInputs, with MaxCallsInputs
\* control-plane calls.
SpecInputs == InitWith({1}, {Budget(1, MaxCallsInputs)}, AllInputs, {""}) /\ [][Next]_vars

(***************************************************************************)
(* Claims.                                                                 *)
(***************************************************************************)
\* The worker has answered or given up: it is past its decision.
Finished(w) == pc[w] \in {"close", "done"}

\* The proxy is in filter mode.
FilterMode == get_proxy_mode(proxy_mode) = "filter"

\* The worker has saved its request for a decision.
Saved(w) == request_id(w) \in published

\* C1: when the control plane posts /block for an id while the id's worker
\* is polling, the worker answers its client 403 'Blocked by proxy' and
\* nothing else (the store being reachable).
C1_BlockedWhilePollingGets403 ==
    \A w \in Conns :
        ("block" \in posted[w] /\ Finished(w) /\ status[w] # "error")
            => sent[w] = <<Blocked403>>

\* C2: in intercept mode an upstream request is issued only by a worker whose
\* wait ended with status 'allowed'; a wait that ended with 'blocked',
\* 'modified' or 'pending' (or anything else) issues none, in either handler.
C2_UpstreamOnlyAfterAllowed ==
    ~FilterMode =>
        \A w \in Conns :
            /\ upstream[w] # <<>> => (status[w] = "allowed" /\ pc[w] \notin {"poll", "decide"})
            /\ (Finished(w) /\ status[w] # "allowed") => upstream[w] = <<>>

C2_Witness ==
    \E w \in Conns :
        /\ handler[w] = "plain"
        /\ status[w] = "allowed"
        /\ Len(upstream[w]) = 1
        /\ upstream[w][1].url = "http://example.test/hello"

\* C3: a call of POST /api/requests/<id>/allow made while the worker polls
\* the pending id leaves the id's status 'allowed'.
C3_AllowSetsAllowed ==
    [][\A id \in Ids :
        ("allow" \notin posted[id] /\ "allow" \in posted'[id]
            /\ HGet(req[id], "status") = "pending")
        => HGet(req'[id], "status") = "allowed"]_vars

\* C4: a worker whose every status poll returned 'pending' has polled
\* max_wait / 0.5 times, has answered 408 Request Timeout and nothing else,
\* and has issued no upstream request.
C4_AllPendingGives408 ==
    \A w \in Conns :
        /\ (pc[w] = "decide" /\ status[w] = "pending") => waited[w] = MaxPolls
        /\ (Saved(w) /\ Finished(w) /\ status[w] = "pending") =>
                /\ waited[w] = MaxPolls
                /\ sent[w] = <<Timeout408>>
                /\ upstream[w] = <<>>

C4_Witness ==
    \E w \in Conns :
        /\ pc[w] = "done"
        /\ status[w] = "pending"
        /\ waited[w] = MaxPolls
        /\ sent[w] = <<Timeout408>>

\* The worker takes the step that answers the response phase.
AnswersResponse(w) == pc[w] = "decide_response" /\ pc'[w] = "close"

\* What that step writes to the client.
Answer(w) == sent'[w][Len(sent'[w])]

\* Headers the proxy never passes on, and the one it rewrites.
Dropped(k) == Lower(k) \in {"transfer-encoding", "content-encoding"}
IsContentLength(k) == Lower(k) = "content-length"

\* C5: the answer of the response phase is decided by the response status
\* the worker read: 'blocked' gives 403; 'allowed' gives the status code and
\* body of the response record as stored when the worker reloads it, with
\* the record's headers (less Transfer-Encoding and Content-Encoding,
\* Content-Length restated); a wait that ran out on 'pending' gives 504.
C5_ResponseDecisionDecides ==
    [][\A w \in Conns : AnswersResponse(w) =>
        /\ Len(sent'[w]) = Len(sent[w]) + 1
        /\ resp_status[w] = "blocked" => Answer(w) = Blocked403
        /\ resp_status[w] = "pending" =>
                (resp_waited[w] = MaxPolls /\ Answer(w) = GatewayTimeout504)
        /\ (resp_status[w] = "allowed" /\ Exists(resp[request_id(w)])) =>
            LET stored == resp[request_id(w)]
                hdrs == JsonLoads(stored.headers)
            IN /\ Answer(w).code = StrToInt(stored.status_code)
               /\ Answer(w).body = stored.body
               /\ DOMAIN Answer(w).headers = {k \in DOMAIN hdrs : ~Dropped(k)}
               /\ \A k \in DOMAIN Answer(w).headers :
                    ~IsContentLength(k) => Answer(w).headers[k] = hdrs[k]]_vars

\* An edited response record was allowed and written to the client.
C5_Witness ==
    \E w \in Conns :
        /\ pc[w] = "done"
        /\ resp_status[w] = "allowed"
        /\ response[w].content = "hi"
        /\ Len(sent[w]) = 1
        /\ sent[w][1].code = 200
        /\ sent[w][1].body = "replaced"
        /\ DOMAIN sent[w][1].headers = {"Via"}

\* C6: a worker that read request status 'modified' answers 501 Not
\* Implemented and nothing else, issues no upstream request and saves no
\* response record.
C6_ModifiedGives501 ==
    \A w \in Conns :
        (status[w] = "modified" /\ Finished(w)) =>
            /\ sent[w] = <<NotImplemented501>>
            /\ upstream[w] = <<>>
            /\ response[w] = NoResponse
            /\ "status_code" \notin DOMAIN resp[request_id(w)]

C6_Witness ==
    \E w \in Conns :
        /\ status[w] = "modified"
        /\ pc[w] = "done"
        /\ sent[w] = <<NotImplemented501>>

\* The status field of a hash, None when the hash has none.
StatusOf(h) == HGet(h, "status")

Terminal == StatusValues \ {"pending"}

\* A step of the status field the transition diagram has: none, the field
\* appearing or going away with its record, or 'pending' to a terminal value.
Moves(s, t) == t = s \/ s = None \/ t = None \/ (s = "pending" /\ t \in Terminal)

\* C7: the status of a request or response record moves only from 'pending'
\* to 'allowed', 'blocked' or 'modified', never from one of these to
\* 'pending' or to another of them.
C7_StatusNeverGoesBack ==
    [][\A id \in Ids :
        /\ Moves(StatusOf(req[id]), StatusOf(req'[id]))
        /\ Moves(StatusOf(resp[id]), StatusOf(resp'[id]))]_vars

\* Every status stored in a record is one of the four values.
StoredStatusesValid ==
    \A id \in Ids :
        /\ "status" \in DOMAIN req[id] => req[id].status \in StatusValues
        /\ "status" \in DOMAIN resp[id] => resp[id].status \in StatusValues

\* C8 as stated: every stored status and every status get_request_status or
\* get_response_status returned to a worker is one of 'pending', 'allowed',
\* 'blocked', 'modified'.
C8_OnlyFourValues ==
    /\ StoredStatusesValid
    /\ \A w \in Conns : status[w] \in StatusValues /\ resp_status[w] \in StatusValues

\* C8 as amended: every stored status is one of the four values, and every
\* status returned to a worker is one of the four or one of the two values
\* the reads add, 'unknown' (no status field) and 'error' (the read raised).
C8_FourValuesOrSentinel ==
    /\ StoredStatusesValid
    /\ \A w \in Conns :
        /\ status[w] \in StatusValues \cup {"unknown", "error"}
        /\ resp_status[w] \in StatusValues \cup {"unknown", "error"}

\* A worker has read 'unknown' for a request record that was deleted during
\* its wait.
C8_Witness ==
    \E w \in Conns :
        /\ status[w] = "unknown"
        /\ pc[w] = "decide"
        /\ ~Exists(req[request_id(w)])

\* The ids of the pending_requests list.
Listed == {pending[i] : i \in 1..Len(pending)}

\* C9: in every state every id of pending_requests has an existing
\* request:<id> hash.
C9_ListedIdsHaveRecords ==
    \A id \in Listed : Exists(req[id])

\* C10: pending_requests holds only ids that await a decision: no listed id
\* has a request whose status is 'allowed', 'blocked' or 'modified', and no
\* listed id belongs to a worker that has answered and finished.
C10_ListedIdsAwaitDecision ==
    \A id \in Listed :
        /\ StatusOf(req[id]) \notin Terminal
        /\ ~Finished(id)

\* The worker of the id has completed: its handler has returned.
Completed(id) == pc[id] = "done"

\* C11: a response:<id> hash exists only for an id whose request:<id> hash
\* was created before (save_request ran up to its lpush), and as long as the
\* worker of the id has not completed, the request:<id> hash of a response
\* record still exists.
C11_ResponseOnlyWithRequest ==
    \A id \in Ids :
        Exists(resp[id]) =>
            /\ id \in published
            /\ ~Completed(id) => Exists(req[id])

\* The step is a call of the control plane on the id.
ControlPlaneStep(id) == calls'[id] < calls[id]

\* C12: the worker that polls an id is the one that saved it, no two workers
\* have the same id, and every step that writes a terminal status into a
\* request or response record is a step of the control plane: the workers
\* write 'pending' only.
C12_WorkersWriteOnlyPending ==
    [][/\ \A w, v \in Conns : request_id(w) = request_id(v) => w = v
       /\ \A w \in Conns :
            (pc[w] = "poll" /\ pc'[w] # "poll") =>
                /\ request_id(w) \in published
                /\ status'[w] \in StatusReads(req[request_id(w)])
       /\ \A id \in Ids :
            /\ (StatusOf(req'[id]) # StatusOf(req[id]) /\ StatusOf(req'[id]) \in Terminal)
                    => ControlPlaneStep(id)
            /\ (StatusOf(resp'[id]) # StatusOf(resp[id]) /\ StatusOf(resp'[id]) \in Terminal)
                    => ControlPlaneStep(id)]_vars

\* A worker has read the terminal status the control plane wrote for its id
\* while the other worker polls its own.
C12_Witness ==
    \E w, v \in Conns :
        /\ w # v
        /\ status[w] = "allowed"
        /\ StatusOf(req[request_id(w)]) = "allowed"
        /\ pc[w] = "save_response_expire"
        /\ StatusOf(resp[request_id(w)]) = "pending"
        /\ pc[v] = "poll"

\* The worker has read its client's request: the plain handler from the
\* socket, the tunnel handler from the TLS session it has set up.
RequestRead(w) ==
    \/ handler[w] = "plain"
    \/ /\ handler[w] = "tunnel"
       /\ MatchingPair(context[w].cert, context[w].key)
       /\ client[w].request # NoData

\* C13: in filter mode a request whose hostname is in blocked_domains is
\* never sent upstream and leaves no request record, no response record and
\* no pending_requests entry, and its client gets, as the only answer, the
\* 403 Forbidden HTML page that names the hostname.
C13_BlockedDomainDenied ==
    \A w \in Conns :
        (FilterMode /\ parsed[w].hostname \in blocked_domains) =>
            /\ upstream[w] = <<>>
            /\ ~Exists(req[request_id(w)])
            /\ ~Exists(resp[request_id(w)])
            /\ request_id(w) \notin Listed
            /\ (Finished(w) /\ RequestRead(w)) =>
                /\ sent[w] = <<DomainPage(parsed[w].hostname)>>
                /\ sent[w][1].code = 403
                /\ sent[w][1].headers["Content-Type"] = "text/html"
                /\ Contains(sent[w][1].body, parsed[w].hostname)

C13_Witness ==
    \E w \in Conns :
        /\ FilterMode
        /\ handler[w] = "tunnel"
        /\ parsed[w].hostname = "example.test"
        /\ "example.test" \in blocked_domains
        /\ pc[w] = "done"
        /\ Len(sent[w]) = 1
        /\ sent[w][1].code = 403

\* The worker got an upstream response in filter mode and has answered.
FilterAnswered(w) == FilterMode /\ Finished(w) /\ response[w] # NoResponse

\* C14: in filter mode, when a keyword of blocked_keywords occurs in the
\* decoded body of the upstream response, the client gets the 403 page that
\* names a keyword occurring in the body, and nothing of the upstream
\* response; when none occurs, the client gets the upstream response.
C14_KeywordDenied ==
    \A w \in Conns :
        FilterAnswered(w) =>
            IF \E k \in blocked_keywords : Contains(response[w].text, k)
            THEN \E k \in blocked_keywords :
                    /\ Contains(response[w].text, k)
                    /\ sent[w] = <<KeywordPage(k)>>
                    /\ Contains(sent[w][1].body, k)
                    /\ sent[w][1].code = 403
            ELSE /\ Len(sent[w]) = 1
                 /\ sent[w][1].code = response[w].status_code
                 /\ sent[w][1].body = response[w].content

C14_Witness ==
    \E w \in Conns :
        /\ FilterAnswered(w)
        /\ blocked_keywords = {"h", "zz"}
        /\ response[w].text = "hi"
        /\ sent[w] = <<KeywordPage("h")>>
        /\ Len(upstream[w]) = 1

\* The worker takes the step that issues the upstream request of the
\* intercept path, and the request it issues.
Forwards(w) == pc[w] = "forward" /\ pc'[w] # "forward"
Forwarded(w) == upstream'[w][Len(upstream'[w])]

\* C15: the upstream request of an allowed request carries the headers
\* (less Accept-Encoding) and the body of the request record as the control
\* plane has edited it by the time the request is issued.
C15_EditsReachUpstream ==
    [][\A w \in Conns :
        (Forwards(w) /\ {"headers", "body"} \subseteq DOMAIN req[request_id(w)]) =>
            /\ Forwarded(w).body = req[request_id(w)].body
            /\ Forwarded(w).headers =
                    StripAcceptEncoding(JsonLoads(req[request_id(w)].headers))]_vars

\* A response written to the client has a Content-Length header, every
\* Content-Length header gives the length of the body, and there is no
\* Transfer-Encoding or Content-Encoding header.
WellFramed(m) ==
    /\ \E k \in DOMAIN m.headers : IsContentLength(k)
    /\ \A k \in DOMAIN m.headers :
        /\ IsContentLength(k) => m.headers[k] = StrLen(m.body)
        /\ ~Dropped(k)

\* The worker takes the step that forwards a response to its client: an
\* allowed response in intercept mode, a response without blocked keyword in
\* filter mode.
ForwardsResponse(w) ==
    \/ AnswersResponse(w) /\ resp_status[w] = "allowed"
    \/ /\ pc[w] = "blocked_keywords" /\ pc'[w] = "close"
       /\ MatchingKeywords(blocked_keywords, response[w].text) = {}

\* C16: every response forwarded to the client carries a Content-Length
\* header equal to the length of the body sent and no Transfer-Encoding or
\* Content-Encoding header.
C16_ForwardedResponsesWellFramed ==
    [][\A w \in Conns : ForwardsResponse(w) => WellFramed(Answer(w))]_vars

\* No header of the request is named accept-encoding, in any case.
NoAcceptEncoding(r) == \A k \in DOMAIN r.headers : Lower(k) # "accept-encoding"

\* C17: in intercept mode no upstream request has an Accept-Encoding header,
\* whatever the case of its name, whether it came from the client or from
\* the headers the control plane wrote into the record.
C17_InterceptStripsAcceptEncoding ==
    \A w \in Conns :
        ~FilterMode => \A i \in 1..Len(upstream[w]) : NoAcceptEncoding(upstream[w][i])

\* The control plane has replaced the record's headers by a set that holds
\* only accept-encoding, and the worker has sent the request upstream with
\* no header left.
C17_Witness ==
    \E w \in Conns :
        /\ ~FilterMode
        /\ status[w] = "allowed"
        /\ Len(upstream[w]) = 1
        /\ DOMAIN upstream[w][1].headers = {}
        /\ Exists(req[request_id(w)])
        /\ DOMAIN JsonLoads(req[request_id(w)].headers) = {"accept-encoding"}

\* C18: no upstream request of the proxy, in filter mode or in intercept
\* mode, has an Accept-Encoding header.
C18_EveryHopStripsAcceptEncoding ==
    \A w \in Conns : \A i \in 1..Len(upstream[w]) : NoAcceptEncoding(upstream[w][i])

\* What belongs to one connection: the variables of its worker, and the
\* records and list entries of its id.
Locals(w) == <<pc[w], handler[w], parsed[w], waited[w], status[w], response[w],
               resp_waited[w], resp_status[w], sent[w], upstream[w], context[w],
               raw_sent[w]>>
Records(id) == <<req[id], reqTTL[id], resp[id], respTTL[id],
                 SelectSeq(pending, LAMBDA x : x = id)>>
InWait(w) == pc[w] \in {"poll", "poll_response"}

\* The worker is in a decision wait, or answers and closes after one.
WaitsOrAnswers(w) == pc[w] \in {"poll", "decide", "poll_response", "decide_response", "close"}

\* C19: a worker in a decision wait blocks no other worker (a worker that
\* has not completed can take its next step while another is in a wait); a
\* step of one worker, whatever its outcome, changes nothing of another
\* connection, neither the other worker's variables nor the records and
\* list entries of the other id; and a worker that waits, times out or
\* answers writes nothing at all that the workers share.
C19_WorkersIndependent ==
    /\ [](\A w, v \in Conns :
            (w # v /\ InWait(w) /\ pc[v] \notin {"absent", "done"}) => ENABLED Worker(v))
    /\ [][\A w \in Conns :
            Locals(w)' # Locals(w) =>
                /\ \A v \in Conns \ {w} :
                    /\ Locals(v)' = Locals(v)
                    /\ Records(request_id(v))' = Records(request_id(v))
                /\ WaitsOrAnswers(w) => UNCHANGED <<store, config, cache>>]_vars

\* The second worker has forwarded the allowed response to its client and
\* completed while the first is still polling its pending request.
C19_Witness ==
    \E w, v \in Conns :
        /\ w # v
        /\ pc[w] = "poll"
        /\ status[w] = "pending"
        /\ StatusOf(req[request_id(w)]) = "pending"
        /\ pc[v] = "done"
        /\ resp_status[v] = "allowed"
        /\ Len(sent[v]) = 1
        /\ sent[v][1].code = 200

\* C20: the certificate and the private key a worker has loaded for its
\* handshake are of the same mint.
C20_LoadedPairMatches ==
    \A w \in Conns :
        context[w].key # NoMint => MatchingPair(context[w].cert, context[w].key)

\* The connection has been dispatched to a handler.
Dispatched(w) == handler[w] # "none"

\* The step in which minting or persisting the leaf certificate fails.
MintFails(w) ==
    pc[w] \in {"open_cert", "write_cert", "open_key", "write_key"} /\ pc'[w] = "close"

\* C21: when minting or persisting the leaf certificate of a CONNECT fails,
\* the client is sent 400 Bad Request and nothing else, '200 Connection
\* Established' in particular not, and the connection is closed.
C21_MintFailureGets400 ==
    [][\A w \in Conns : MintFails(w) => raw_sent'[w] = <<BadRequest400>>]_vars

\* No non-empty hostname is in the line: it does not start with CONNECT, or
\* has no second word, or its second word has nothing before its colon.
NoHostname(line) ==
    \/ ~StartsWith(line, "CONNECT")
    \/ Len(Split(line)) < 2
    \/ StartsWith(Split(line)[2], ":")

\* The worker has minted no certificate or key into the cache.
NothingMinted(w) ==
    \A h \in Hostnames : cert_file[h] # Mint(w) /\ key_file[h] # Mint(w)

\* C22: a connection dispatched to the CONNECT handler on a first line that
\* holds no non-empty hostname is answered 400 Bad Request and closed, with no
\* certificate minted, no '200 Connection Established' sent, no record stored
\* and nothing sent upstream.
C22_NoHostnameGets400 ==
    \A w \in Conns :
        Dispatched(w) /\ handler[w] = "tunnel" /\ NoHostname(client[w].line) =>
            /\ Finished(w)
            /\ raw_sent[w] = <<BadRequest400>>
            /\ sent[w] = <<>>
            /\ NothingMinted(w)
            /\ context[w] = [cert |-> NoMint, key |-> NoMint]
            /\ ~Saved(w)
            /\ ~Exists(req[request_id(w)])
            /\ upstream[w] = <<>>

\* A CONNECT line with an empty host, a bare CONNECT and a CONNECT after
\* leading whitespace have each been refused and the connection closed.
C22_Witness ==
    \E w \in Conns :
        /\ pc[w] = "done"
        /\ handler[w] = "tunnel"
        /\ NoHostname(client[w].line)
        /\ client[w].line \in {"CONNECT", "CONNECT :443 HTTP/1.1",
                               " CONNECT example.test:443 HTTP/1.1"}
        /\ raw_sent[w] = <<BadRequest400>>

\* The first whitespace-separated word of a line, "" when it has none.
FirstToken(line) == IF Split(line) = <<>> THEN "" ELSE Split(line)[1]

\* C23: a connection is dispatched to the tunnel handler exactly when the
\* first word of its first line is CONNECT, and to the plain handler otherwise.
C23_ConnectIffFirstToken ==
    \A w \in Conns :
        Dispatched(w) =>
            /\ handler[w] = "tunnel" <=> FirstToken(client[w].line) = "CONNECT"
            /\ handler[w] = "plain" <=> FirstToken(client[w].line) # "CONNECT"

\* The authority of an absolute-form request URI.
Authority(path) == Before(After(path, "://"), "/")

\* C24: in the plain handler the hostname is the Host header, or without one
\* the authority of an absolute-form URI; with neither, the handler ends
\* without storing a record and without an upstream request.
C24_PlainHostname ==
    \A w \in Conns :
        LET r == client[w].request
        IN Dispatched(w) /\ handler[w] = "plain" =>
            IF "Host" \in DOMAIN r.headers THEN parsed[w].hostname = r.headers["Host"]
            ELSE IF Find(r.path, "://") # 0 THEN parsed[w].hostname = Authority(r.path)
            ELSE /\ ~Saved(w)
                 /\ ~Exists(req[request_id(w)])
                 /\ upstream[w] = <<>>

\* The step in which the upstream request fails.
UpstreamFails(w) == pc[w] \in {"forward", "filter_forward"} /\ pc'[w] = "close"

\* The worker's only answer was a 502 with a body.
Answered502(w) ==
    /\ Len(sent[w]) = 1
    /\ sent[w][1].code = 502
    /\ sent[w][1].body = "Proxy Error"

\* C25: when the upstream request fails, in either mode and either handler,
\* the worker answers 502 Bad Gateway with a short body and goes on to close
\* without touching the store, and no response record of its own is left
\* under its id.
C25_UpstreamFailureGets502 ==
    /\ [][\A w \in Conns : UpstreamFails(w) =>
            /\ sent'[w] = Append(sent[w], Canned(502, "Proxy Error"))
            /\ response'[w] = NoResponse
            /\ UNCHANGED store]_vars
    /\ [](\A w \in Conns : Finished(w) /\ upstream[w] # <<>> /\ response[w] = NoResponse =>
            /\ Answered502(w)
            /\ "status_code" \notin DOMAIN resp[request_id(w)])

\* An allowed request of intercept mode whose upstream call failed: the
\* worker has answered 502 and closed.
C25_Witness ==
    \E w \in Conns :
        /\ pc[w] = "done"
        /\ ~FilterMode
        /\ status[w] = "allowed"
        /\ upstream[w] # <<>>
        /\ Answered502(w)

\* C26: whatever happens to the store meanwhile, GET /api/requests answers
\* 200 with one summary per id it read from pending_requests, in the order
\* of the list (the most recently saved first).
C26_PendingViewListsEveryId ==
    view.pc = "done" =>
        /\ view.answer.code = 200
        /\ Len(view.answer.body) = Len(view.ids)
        /\ \A i \in DOMAIN view.ids : view.answer.body[i].id = view.ids[i]

\* The mode a read shows after the sets so far.
ModeInForce == IF mode_set = None THEN "intercept" ELSE mode_set

\* C27 as stated: every get_proxy_mode returns the value of the last
\* successful set_proxy_mode, 'intercept' when there was none.
C27_ReadIsLastSet == [][call_get_proxy_mode => returned'.result = ModeInForce]_vars

\* C27, amended: get_proxy_mode returns the value of the last successful
\* set_proxy_mode when that value is still stored and the read reaches the
\* store, and 'intercept' otherwise (no mode was set, the store was flushed
\* since, or the read raises); a set_proxy_mode with a value outside
\* {intercept, filter} returns False and leaves the mode as it was, one with
\* a value inside stores it and returns True when the store is reached and
\* returns False and stores nothing when it is not; and no read returns
\* anything but 'intercept' or 'filter'.
C27_ModeIsLastSet ==
    /\ [][/\ call_get_proxy_mode =>
                /\ returned'.result = IF ~Raises /\ proxy_mode = mode_set
                                      THEN ModeInForce ELSE "intercept"
                /\ returned'.result \in {ModeInForce, "intercept"}
                /\ returned'.result # "intercept" => proxy_mode = mode_set
          /\ \A mode \in ModeArgs : set_proxy_mode(mode) =>
                /\ mode \notin {"intercept", "filter"} => returned'.result = "False"
                /\ mode \in {"intercept", "filter"} =>
                        returned'.result = IF Raises THEN "False" ELSE "True"
                /\ returned'.result = "True" =>
                        proxy_mode' = mode /\ get_proxy_mode(proxy_mode') = mode
                /\ returned'.result = "False" => UNCHANGED proxy_mode
                /\ returned'.result \in {"True", "False"}]_vars
    /\ [](get_proxy_mode(proxy_mode) \in {"intercept", "filter"})
    /\ [](returned.call = "get_proxy_mode" => returned.result \in {"intercept", "filter"})

\* A read has returned 'filter', the mode last set.
C27_Witness ==
    /\ returned = Returned("get_proxy_mode", "", "filter")
    /\ mode_set = "filter"

\* The cache holds the certificate and the key of the hostname.
Cached(hostname) == Readable(cert_file[hostname]) /\ Readable(key_file[hostname])

\* A step of the worker's CONNECT setup.
SetsUpTunnel(w) ==
    pc[w] \in {"open_cert", "write_cert", "open_key", "write_key"} /\ pc'[w] # pc[w]

\* C28: a CONNECT for a hostname whose certificate and key are in the cache
\* leaves both files as they are.
C28_CachedPairReused ==
    [][\A w \in Conns : SetsUpTunnel(w) /\ Cached(parsed[w].hostname) =>
            UNCHANGED <<cert_file, key_file>>]_vars

\* The worker's handler is in its response phase, or past it.
ResponsePhase == {"save_response_hset", "save_response_expire", "poll_response",
                  "decide_response"}

\* The step of save_response that writes the response record.
SavesResponse(w) == pc[w] = "save_response_hset" /\ pc'[w] # pc[w]

\* C29: the handler of a connection is sequential.  The response record is
\* written only by a worker that has read 'allowed' and holds the upstream
\* response, and under the worker's own id, that of its request record; the
\* response wait starts from save_response, after the request wait has ended;
\* and a worker in its response phase never polls the request status again.
C29_HandlerSequential ==
    /\ [][\A w \in Conns :
            /\ SavesResponse(w) =>
                /\ status[w] = "allowed"
                /\ response[w] \in UpstreamResponses
                /\ upstream[w] # <<>>
                /\ Saved(w)
                /\ resp' = [resp EXCEPT ![request_id(w)] = HSet(@, response_data(response[w]))]
            /\ pc'[w] = "poll_response" /\ pc[w] # "poll_response" =>
                pc[w] = "save_response_expire" /\ status[w] = "allowed"
            /\ pc[w] \in ResponsePhase \cup {"close", "done"} => pc'[w] # "poll"]_vars
    /\ [](\A w \in Conns : pc[w] \in {"poll", "decide", "reload", "forward"} =>
            /\ resp_waited[w] = 0
            /\ resp_status[w] = "pending"
            /\ response[w] = NoResponse)

\* A worker that read 'allowed' is in its response wait, one poll made.
C29_Witness ==
    \E w \in Conns :
        /\ pc[w] = "poll_response"
        /\ resp_waited[w] > 0
        /\ status[w] = "allowed"
        /\ "status_code" \in DOMAIN resp[request_id(w)]

\* C30: every decision wait ends after at most MaxPolls polls, and every
\* connection that arrives is in the end closed, whatever the control plane
\* does, with the worker threads scheduled fairly and their I/O returning.
C30_EveryWorkerTerminates ==
    /\ [](\A w \in Conns : waited[w] <= MaxPolls /\ resp_waited[w] <= MaxPolls)
    /\ \A w \in Conns : pc[w] # "absent" ~> pc[w] = "done"

\* A worker whose request wait ran to the cap has answered 408 and closed.
C30_Witness ==
    \E w \in Conns :
        /\ pc[w] = "done"
        /\ waited[w] = MaxPolls
        /\ sent[w] = <<Timeout408>>

\* The fields of a complete request record and of a complete response record.
RequestFields == {"id", "hostname", "method", "path", "headers", "body", "timestamp", "status"}
ResponseFields == {"status_code", "headers", "body", "status"}

\* save_request is between its first and its last command for the id.
Saving(id) == pc[id] \in {"save_lpush", "save_expire", "save_status"}

\* C37: every request hash and every response hash in the store, outside a
\* save_request in progress, is a complete record.
C37_RecordsComplete ==
    \A id \in Ids :
        /\ Exists(req[id]) /\ ~Saving(id) => RequestFields \subseteq DOMAIN req[id]
        /\ Exists(resp[id]) => ResponseFields \subseteq DOMAIN resp[id]

\* A step of the request wait that reads a status, and one of the response wait.
PollsRequest(w) == pc[w] = "poll" /\ <<pc[w], status[w], waited[w]>>' # <<pc[w], status[w], waited[w]>>
PollsResponse(w) ==
    /\ pc[w] = "poll_response"
    /\ <<pc[w], resp_status[w], resp_waited[w]>>' # <<pc[w], resp_status[w], resp_waited[w]>>

\* C38: a status read that is none of 'pending', 'allowed', 'blocked',
\* 'modified' ends the wait at that poll, without the half second counted;
\* the request phase then answers 408 with nothing sent upstream, the
\* response phase 504.
C38_OddStatusEndsWait ==
    /\ [][\A w \in Conns :
            /\ PollsRequest(w) /\ status'[w] \notin StatusValues =>
                pc'[w] = "decide" /\ waited'[w] = waited[w]
            /\ pc[w] = "decide" /\ pc'[w] # "decide" /\ status[w] \notin StatusValues =>
                /\ sent'[w] = Append(sent[w], Canned(408, ""))
                /\ pc'[w] = "close"
                /\ upstream'[w] = <<>>
            /\ PollsResponse(w) /\ resp_status'[w] \notin StatusValues =>
                pc'[w] = "decide_response" /\ resp_waited'[w] = resp_waited[w]
            /\ pc[w] = "decide_response" /\ pc'[w] # "decide_response"
                    /\ resp_status[w] \notin StatusValues =>
                /\ sent'[w] = Append(sent[w], Canned(504, "Response decision timeout"))
                /\ pc'[w] = "close"]_vars
    /\ [](\A w \in Conns : Finished(w) /\ status[w] \notin StatusValues => upstream[w] = <<>>)

\* A worker whose record was deleted under its wait read 'unknown' before the
\* cap and has answered 408 with nothing sent upstream.
C38_Witness ==
    \E w \in Conns :
        /\ pc[w] = "done"
        /\ status[w] = "unknown"
        /\ waited[w] < MaxPolls
        /\ sent[w] = <<Timeout408>>
        /\ upstream[w] = <<>>

\* A step of the worker.
WorkerStep(w) == Locals(w)' # Locals(w)

\* l is a suffix of m: m is l with entries pushed in front.
IsSuffix(l, m) == Len(l) <= Len(m) /\ SubSeq(m, Len(m) - Len(l) + 1, Len(m)) = l

\* The record keeps every field it has.
Keeps(h, g) == DOMAIN h \subseteq DOMAIN g

\* C40: no step of a worker removes a request record, a response record, a
\* field of one, or an entry of pending_requests; a record that is there and
\* then is not was removed by delete_request or by its expiry, and an entry
\* of the list by delete_request.
C40_WorkersNeverShrinkStore ==
    /\ [][\A w \in Conns : WorkerStep(w) =>
            /\ \A id \in Ids : Keeps(req[id], req'[id]) /\ Keeps(resp[id], resp'[id])
            /\ IsSuffix(pending, pending')]_vars
    /\ [][\A id \in Ids :
            /\ ~Keeps(req[id], req'[id]) => block_request(id) \/ expire_request(id)
            /\ ~Keeps(resp[id], resp'[id]) => expire_response(id)
            /\ ~IsSuffix(pending, pending') => \E i \in Ids : delete_request_lrem(i)]_vars

\* A worker has answered 408 and closed, and its request record and its list
\* entry are still there.
C40_Witness ==
    \E w \in Conns :
        /\ pc[w] = "done"
        /\ sent[w] = <<Timeout408>>
        /\ RequestFields \subseteq DOMAIN req[request_id(w)]
        /\ pending = <<request_id(w)>>

\* The fields a call of update_request_data / update_response_data supplies.
Supplied(headers, body) ==
    (IF Given(headers) THEN {"headers"} ELSE {}) \cup (IF Given(body) THEN {"body"} ELSE {})

\* g is h with the supplied fields written and every other field as it was.
OnlySupplied(h, g, headers, body) ==
    /\ DOMAIN g = DOMAIN h \cup Supplied(headers, body)
    /\ \A f \in DOMAIN h \ Supplied(headers, body) : g[f] = h[f]
    /\ Given(headers) => g.headers = JsonDumps(Value(headers))
    /\ Given(body) => g.body = Value(body)

\* C33: update_request_data and update_response_data write the supplied
\* fields and nothing else: every other field of the record, every other
\* record, the expiries and pending_requests are as before, and a call that
\* supplies neither leaves the store unchanged.
C33_PartialUpdate ==
    [][\A id \in Ids, headers \in EditedHeaders, body \in EditedBodies :
        /\ update_request_data(id, headers, body) =>
            /\ OnlySupplied(req[id], req'[id], headers, body)
            /\ \A other \in Ids \ {id} : req'[other] = req[other]
            /\ UNCHANGED <<reqTTL, resp, respTTL, pending>>
            /\ Supplied(headers, body) = {} => UNCHANGED store
        /\ update_response_data(id, headers, body) =>
            /\ OnlySupplied(resp[id], resp'[id], headers, body)
            /\ \A other \in Ids \ {id} : resp'[other] = resp[other]
            /\ UNCHANGED <<req, reqTTL, respTTL, pending>>
            /\ Supplied(headers, body) = {} => UNCHANGED store]_vars

\* A saved request record whose headers were replaced: its body and its
\* other fields are those the worker saved.
C33_Witness ==
    \E id \in Ids :
        /\ RequestFields \subseteq DOMAIN req[id]
        /\ req[id].headers = JsonDumps([Via |-> "edited"])
        /\ req[id].body = ""
        /\ req[id].method = "GET"

\* The steps of save_request that push the id and that end the operation.
PushesId(w) == pc[w] = "save_lpush" /\ pc'[w] # pc[w]
CompletesSave(w) == pc[w] = "save_status" /\ pc'[w] # pc[w]

\* The record of the id is complete, 'pending' and expires in an hour.
SavedRecord(h, ttl) ==
    /\ RequestFields \subseteq DOMAIN h
    /\ h.status = "pending"
    /\ ttl = TTL_SECONDS

\* C31 as stated: when save_request completes, the record is complete and
\* 'pending' with a TTL of one hour, and the id is the head of pending_requests.
C31_SaveCompletesAtHead ==
    [][\A w \in Conns : CompletesSave(w) =>
            /\ SavedRecord(req'[request_id(w)], reqTTL'[request_id(w)])
            /\ pending' # <<>>
            /\ Head(pending') = request_id(w)]_vars

\* C31, amended: the LPUSH of save_request puts the id at the head of
\* pending_requests with the ids saved earlier behind it in their order; and
\* when save_request completes on a record that was not deleted in between,
\* the record is complete and 'pending' with a TTL of one hour and the id is
\* in the list, not necessarily at its head.
C31_SavePushesThenCompletes ==
    [][\A w \in Conns :
        /\ PushesId(w) => pending' = <<request_id(w)>> \o pending
        /\ CompletesSave(w) /\ "id" \in DOMAIN req[request_id(w)] =>
            /\ SavedRecord(req'[request_id(w)], reqTTL'[request_id(w)])
            /\ request_id(w) \in {pending'[i] : i \in DOMAIN pending'}]_vars

\* A save_request has completed, its record complete and 'pending' with its
\* TTL, and the id of a concurrent save is in front of it in the list.
C31_Witness ==
    \E w \in Conns :
        /\ pc[w] = "poll"
        /\ waited[w] = 0
        /\ SavedRecord(req[request_id(w)], reqTTL[request_id(w)])
        /\ Len(pending) = 2
        /\ pending[2] = request_id(w)

\* C34: when delete_request completes, the record of the id does not exist
\* and the id is not in pending_requests.
C34_DeleteLeavesNothing ==
    [][\A id \in Ids : delete_request_lrem(id) =>
            /\ ~Exists(req'[id])
            /\ id \notin {pending'[i] : i \in DOMAIN pending'}]_vars

\* C32: a change of the status of a request record that has a TTL, through
\* update_request_status, leaves the record with a TTL of the full hour, and a
\* record that is there and then is not was deleted or has expired.
C32_StatusChangeRefreshesTTL ==
    [][\A id \in Ids :
        /\ \A s \in StatusValues :
            update_request_status(id, s) /\ reqTTL[id] # NoTTL => reqTTL'[id] = TTL_SECONDS
        /\ Exists(req[id]) /\ ~Exists(req'[id]) => block_request(id) \/ expire_request(id)]_vars

(***************************************************************************)
(* C36: the order of the shutdown.                                         *)
(***************************************************************************)
\* How far the shutdown has come.
ListeningSocketClosed == server = "closed"
CachePurged == server \in {"purged", "flushed", "closed"}
StoreFlushed == server \in {"flushed", "closed"}

\* The step in which a connection is accepted.
Accepts(w) == pc[w] = "accept" /\ pc'[w] # "accept"

\* A step that puts a record into the store: a request or a response record
\* that did not exist comes to exist.
SavesNewRecord ==
    \E id \in Ids :
        \/ ~Exists(req[id]) /\ Exists(req'[id])
        \/ ~Exists(resp[id]) /\ Exists(resp'[id])

\* C36: on the interrupt the listening socket is closed first, then the
\* certificate cache is purged, then the store is flushed; and once the store
\* has been flushed, no connection is accepted and no new record is saved.
C36_ShutdownOrder ==
    /\ [](CachePurged => ListeningSocketClosed)
    /\ [](StoreFlushed => CachePurged)
    /\ [][StoreFlushed => (\A w \in Conns : ~Accepts(w)) /\ ~SavesNewRecord]_vars

\* The consequence alone: nothing is accepted and nothing new is saved once
\* the store has been flushed.
C36_NothingSavedAfterFlush ==
    [][StoreFlushed => (\A w \in Conns : ~Accepts(w)) /\ ~SavesNewRecord]_vars

(***************************************************************************)
(* C39: one response per request.                                          *)
(***************************************************************************)
\* The worker has read a request and has not finished handling it.
Handling(w) ==
    pc[w] \notin {"absent", "accept", "recv", "open_cert", "write_cert", "open_key",
                  "write_key", "established", "load_cert", "load_key", "read",
                  "close", "done"}

\* The step in which the worker finishes handling its request.
Finishes(w) == Handling(w) /\ pc'[w] = "close"

\* C39: a worker that has read a request writes exactly one response before
\* it closes: it has written one when it finishes, it never writes a second
\* one, and once it has finished nothing more is written and nothing more
\* goes upstream, whatever decision arrives.
C39_ExactlyOneResponse ==
    /\ [](\A w \in Conns : Len(sent[w]) <= 1)
    /\ [][\A w \in Conns :
            /\ Finishes(w) => Len(sent'[w]) = 1
            /\ pc[w] \in {"close", "done"} => sent'[w] = sent[w] /\ upstream'[w] = upstream[w]]_vars

\* The parts of C39 one by one.
C39_NeverTwo == \A w \in Conns : Len(sent[w]) <= 1
C39_NeverZero == [][\A w \in Conns : Finishes(w) => Len(sent'[w]) = 1]_vars
C39_NothingAfterAnswer ==
    [][\A w \in Conns :
        pc[w] \in {"close", "done"} => sent'[w] = sent[w] /\ upstream'[w] = upstream[w]]_vars

(***************************************************************************)
(* C35: parse_request is lenient and total.                                *)
(***************************************************************************)
\* The fields the handlers read from the result of parse_request.
ParsedFields == {"method", "path", "version", "headers", "body"}

\* The case the raw input was built from.
CaseOf(raw_data) == CHOOSE c \in RawCases : c.raw = raw_data

\* Everything after the first CRLF CRLF of the input, nothing when there is
\* none.
AfterFirstBlankLine(raw_data, body) ==
    LET at == {i \in 1..(Len(raw_data) - 3) : Slice(raw_data, i, i + 3) = "\r\n\r\n"}
    IN IF at = {} THEN body = ""
       ELSE \E i \in at : (\A j \in at : i <= j) /\ body = Slice(raw_data, i + 4, Len(raw_data))

\* C35: for every input string parse_request returns a record with method,
\* path, version, headers and body: the words of the first line with
\* 'UNKNOWN', '/' and 'HTTP/1.1' for the missing ones, the last value of a
\* repeated header name, and as body everything after the first CRLF CRLF.
C35_ParseRequestTotal ==
    request # NoParse =>
        /\ DOMAIN request = ParsedFields
        /\ request.method = CaseOf(raw).method
        /\ request.path = CaseOf(raw).path
        /\ request.version = CaseOf(raw).version
        /\ request.headers = CaseOf(raw).headers
        /\ AfterFirstBlankLine(raw, request.body)

\* A request line of one word, a repeated Host header and a body that holds
\* a second CRLF CRLF have been parsed.
C35_Witness ==
    /\ raw = "GET\r\nHost: a.test\r\nHost: b.test\r\n\r\na=1\r\n\r\nb=2"
    /\ request # NoParse
    /\ request.path = "/"
    /\ request.headers["Host"] = "b.test"
    /\ request.body = "a=1\r\n\r\nb=2"

====
